---- MODULE Spec2Model ----
(***************************************************************************)
(* Model of the endpoint tester hook (useEndpointTester): the schema       *)
(* driven sample generator, the schema validator and the testEndpoint      *)
(* orchestration with its React state (testResults, isLoading, error).     *)
(***************************************************************************)
EXTENDS Integers, Sequences, FiniteSets, TLC

(***************************************************************************)
(* JavaScript values.  A value is a tagged record; numbers are counted in  *)
(* halves (h = 2 * value), so that 5 is Num(10) and 5.5 is Num(11) and a   *)
(* non-whole number can be told from a whole one.  An object is its list   *)
(* of <<key, value>> entries in insertion order.                           *)
(***************************************************************************)
Null == [t |-> "null"]

Undefined == [t |-> "undefined"]

Str(s) == [t |-> "string", s |-> s]

Num(h) == [t |-> "number", h |-> h]

Whole(n) == Num(2 * n)

Bool(b) == [t |-> "boolean", b |-> b]

Arr(items) == [t |-> "array", items |-> items]

Obj(entries) == [t |-> "object", entries |-> entries]

\* typeof value
TypeOf(v) ==
    IF v.t \in {"null", "array", "object"} THEN "object" ELSE v.t

\* Array.isArray(value)
IsArray(v) == v.t = "array"

\* Number.isInteger(value), for a value whose typeof is "number"
IsInteger(v) == v.h % 2 = 0

\* `${n}` for a number counted in halves
NumToString(h) ==
    IF h % 2 = 0
    THEN ToString(h \div 2)
    ELSE LET a == IF h < 0 THEN -h ELSE h
         IN  (IF h < 0 THEN "-" ELSE "") \o ToString(a \div 2) \o ".5"

\* Truthiness of a value (!!v)
Truthy(v) ==
    CASE v.t \in {"null", "undefined"} -> FALSE
      [] v.t = "string" -> v.s # ""
      [] v.t = "number" -> v.h # 0
      [] v.t = "boolean" -> v.b
      [] OTHER -> TRUE

\* Object.keys(obj), in insertion order
OwnKeys(obj) == [k \in 1..Len(obj.entries) |-> obj.entries[k][1]]

Range(seq) == {seq[k] : k \in 1..Len(seq)}

\* Names every plain object inherits from Object.prototype
PrototypeKeys ==
    {"constructor", "toString", "valueOf", "hasOwnProperty",
     "isPrototypeOf", "propertyIsEnumerable", "toLocaleString", "__proto__"}

\* key in obj: own keys and inherited ones
InOp(key, obj) == key \in Range(OwnKeys(obj)) \cup PrototypeKeys

\* obj[key] for an own key; Undefined when the key is absent
GetProp(obj, key) ==
    IF \E k \in 1..Len(obj.entries) : obj.entries[k][1] = key
    THEN obj.entries[CHOOSE k \in 1..Len(obj.entries) :
                        obj.entries[k][1] = key][2]
    ELSE Undefined

\* Array.prototype.join
RECURSIVE Join(_, _)
Join(strs, sep) ==
    IF Len(strs) = 0 THEN ""
    ELSE IF Len(strs) = 1 THEN strs[1]
    ELSE strs[1] \o sep \o Join(Tail(strs), sep)

\* errors.push(...a, ...b, ...) over a list of lists
RECURSIVE Concat(_)
Concat(lists) ==
    IF Len(lists) = 0 THEN <<>> ELSE lists[1] \o Concat(Tail(lists))

(***************************************************************************)
(* JsonSchema.  A schema is a record holding only the fields it declares:  *)
(* a field is undefined exactly when it is not in the record's domain.     *)
(* enum is a list of strings, minimum and maximum are numbers in halves,   *)
(* default is a value, properties is the list of <<name, schema>> entries  *)
(* in insertion order.                                                     *)
(***************************************************************************)
Has(schema, field) == field \in DOMAIN schema

\* Mutant: a key the schema does not declare is checked against the first
\* declared property
PropSchemaFallback(schema, key) ==
    IF \E k \in 1..Len(schema.properties) : schema.properties[k][1] = key
    THEN schema.properties[CHOOSE k \in 1..Len(schema.properties) :
                              schema.properties[k][1] = key][2]
    ELSE IF Len(schema.properties) > 0 THEN schema.properties[1][2]
    ELSE Undefined

\* What a plain object answers for a name it inherits from Object.prototype:
\* a function, or Object.prototype itself; truthy, and without a type
InheritedMember(key) == [inherited |-> key]

\* schema.properties[key]: the declared schema, else the member that
\* schema.properties inherits under that name, else Undefined
PropSchema(schema, key) ==
    IF \E k \in 1..Len(schema.properties) : schema.properties[k][1] = key
    THEN schema.properties[CHOOSE k \in 1..Len(schema.properties) :
                              schema.properties[k][1] = key][2]
    ELSE IF key \in PrototypeKeys THEN InheritedMember(key)
    ELSE Undefined

\* Mutant: a schema without a type is taken for a string schema
SchemaTypeDefaultString(schema) ==
    IF Has(schema, "type") THEN schema.type ELSE "string"

SchemaType(schema) == IF Has(schema, "type") THEN schema.type ELSE "undefined"

\* Mutant: only the required properties get a sample
SampledPropertiesRequiredOnly(schema) ==
    LET IsRequired(entry) ==
            Has(schema, "required") /\ entry[1] \in Range(schema.required)
    IN  SelectSeq(schema.properties, IsRequired)

\* Object.entries(schema.properties)
SampledProperties(schema) == schema.properties

\* Mutant: a default of 0 counts as no default
NumberSampleTruthyDefault(schema) ==
    IF Has(schema, "default") /\ Truthy(schema.default) THEN schema.default
    ELSE IF Has(schema, "minimum") THEN Num(schema.minimum)
    ELSE Whole(0)

\* case 'number' / 'integer'
NumberSample(schema) ==
    IF Has(schema, "default") THEN schema.default
    ELSE IF Has(schema, "minimum") THEN Num(schema.minimum)
    ELSE Whole(0)

\* case 'boolean'
BooleanSample(schema) ==
    IF Has(schema, "default") THEN schema.default ELSE Bool(TRUE)

\* Mutant: the sample array holds its element twice
SampleArrayTwice(item) == Arr(<<item, item>>)

\* [generateSampleValue(schema.items)]
SampleArray(item) == Arr(<<item>>)

\* Mutant: an unrecognized type gets an empty object
UnrecognizedSampleEmptyObject(schema) == Obj(<<>>)

\* default: return null
UnrecognizedSample(schema) == Null

RECURSIVE generateSampleValue(_)
generateSampleValue(schema) ==
    CASE SchemaType(schema) = "string" ->
           IF Has(schema, "enum")
           THEN \* an empty array is truthy too: enum[0] is then undefined
                IF Len(schema.enum) > 0 THEN Str(schema.enum[1]) ELSE Undefined
           ELSE IF Has(schema, "default") THEN schema.default
           ELSE Str("sample string")
      [] SchemaType(schema) \in {"number", "integer"} -> NumberSample(schema)
      [] SchemaType(schema) = "boolean" -> BooleanSample(schema)
      [] SchemaType(schema) = "array" ->
           IF Has(schema, "items")
           THEN SampleArray(generateSampleValue(schema.items))
           ELSE Arr(<<>>)
      [] SchemaType(schema) = "object" ->
           IF Has(schema, "properties")
           THEN Obj([k \in 1..Len(SampledProperties(schema)) |->
                       <<SampledProperties(schema)[k][1],
                         generateSampleValue(SampledProperties(schema)[k][2])>>])
           ELSE Obj(<<>>)
      [] OTHER -> UnrecognizedSample(schema)

\* Mutant: the string checks stop at the first violation
StringErrorsFirstOnly(value, schema, path) ==
    IF Has(schema, "minLength") /\ Len(value.s) < schema.minLength
    THEN <<path \o ": string length " \o ToString(Len(value.s))
             \o " is less than minLength " \o ToString(schema.minLength)>>
    ELSE IF Has(schema, "maxLength") /\ Len(value.s) > schema.maxLength
    THEN <<path \o ": string length " \o ToString(Len(value.s))
             \o " exceeds maxLength " \o ToString(schema.maxLength)>>
    ELSE IF Has(schema, "enum") /\ value.s \notin Range(schema.enum)
    THEN <<path \o ": value \"" \o value.s \o "\" is not in enum ["
             \o Join(schema.enum, ", ") \o "]">>
    ELSE <<>>

\* The checks of the 'string' case on a string value
StringErrors(value, schema, path) ==
    (IF Has(schema, "minLength") /\ Len(value.s) < schema.minLength
     THEN <<path \o ": string length " \o ToString(Len(value.s))
              \o " is less than minLength " \o ToString(schema.minLength)>>
     ELSE <<>>)
    \o
    (IF Has(schema, "maxLength") /\ Len(value.s) > schema.maxLength
     THEN <<path \o ": string length " \o ToString(Len(value.s))
              \o " exceeds maxLength " \o ToString(schema.maxLength)>>
     ELSE <<>>)
    \o
    (IF Has(schema, "enum") /\ value.s \notin Range(schema.enum)
     THEN <<path \o ": value \"" \o value.s \o "\" is not in enum ["
              \o Join(schema.enum, ", ") \o "]">>
     ELSE <<>>)

\* Mutant: a non-whole value of an integer schema skips the bound checks
NumberErrorsFloatOnly(value, schema, path) ==
    IF schema.type = "integer" /\ ~IsInteger(value)
    THEN <<path \o ": expected integer, got float">>
    ELSE (IF Has(schema, "minimum") /\ value.h < schema.minimum
          THEN <<path \o ": value " \o NumToString(value.h)
                   \o " is less than minimum " \o NumToString(schema.minimum)>>
          ELSE <<>>)
         \o
         (IF Has(schema, "maximum") /\ value.h > schema.maximum
          THEN <<path \o ": value " \o NumToString(value.h)
                   \o " exceeds maximum " \o NumToString(schema.maximum)>>
          ELSE <<>>)

\* The checks of the 'number' / 'integer' case on a number value
NumberErrors(value, schema, path) ==
    (IF schema.type = "integer" /\ ~IsInteger(value)
     THEN <<path \o ": expected integer, got float">>
     ELSE <<>>)
    \o
    (IF Has(schema, "minimum") /\ value.h < schema.minimum
     THEN <<path \o ": value " \o NumToString(value.h)
              \o " is less than minimum " \o NumToString(schema.minimum)>>
     ELSE <<>>)
    \o
    (IF Has(schema, "maximum") /\ value.h > schema.maximum
     THEN <<path \o ": value " \o NumToString(value.h)
              \o " exceeds maximum " \o NumToString(schema.maximum)>>
     ELSE <<>>)

\* Mutant: the required names are scanned from the last to the first
MissingRequiredReversed(obj, schema, path) ==
    IF Has(schema, "required")
    THEN Concat([k \in 1..Len(schema.required) |->
                   LET name == schema.required[Len(schema.required) + 1 - k]
                   IN  IF ~InOp(name, obj)
                       THEN <<path \o ": missing required property \""
                                \o name \o "\"">>
                       ELSE <<>>])
    ELSE <<>>

\* The required-property scan of the 'object' case
MissingRequired(obj, schema, path) ==
    IF Has(schema, "required")
    THEN Concat([k \in 1..Len(schema.required) |->
                   IF ~InOp(schema.required[k], obj)
                   THEN <<path \o ": missing required property \""
                            \o schema.required[k] \o "\"">>
                   ELSE <<>>])
    ELSE <<>>

\* Mutant: only undefined is let through, null is checked
IsAbsentUndefinedOnly(value) == value.t = "undefined"

\* value === null || value === undefined
IsAbsent(value) == value.t \in {"null", "undefined"}

\* Mutant: the elements are numbered from one
ElementPathOneBased(path, index) == path \o "[" \o ToString(index + 1) \o "]"

\* `${path}[${index}]`
ElementPath(path, index) == path \o "[" \o ToString(index) \o "]"

RECURSIVE validateValue(_, _, _)
validateValue(value, schema, path) ==
    IF IsAbsent(value) THEN <<>>
    ELSE
    CASE SchemaType(schema) = "string" ->
           IF TypeOf(value) # "string"
           THEN <<path \o ": expected string, got " \o TypeOf(value)>>
           ELSE StringErrors(value, schema, path)
      [] SchemaType(schema) \in {"number", "integer"} ->
           IF TypeOf(value) # "number"
           THEN <<path \o ": expected number, got " \o TypeOf(value)>>
           ELSE NumberErrors(value, schema, path)
      [] SchemaType(schema) = "boolean" ->
           IF TypeOf(value) # "boolean"
           THEN <<path \o ": expected boolean, got " \o TypeOf(value)>>
           ELSE <<>>
      [] SchemaType(schema) = "array" ->
           IF ~IsArray(value)
           THEN <<path \o ": expected array, got " \o TypeOf(value)>>
           ELSE IF Has(schema, "items")
           THEN Concat([k \in 1..Len(value.items) |->
                          validateValue(value.items[k], schema.items,
                                        ElementPath(path, k - 1))])
           ELSE <<>>
      [] SchemaType(schema) = "object" ->
           IF TypeOf(value) # "object" \/ IsArray(value)
           THEN <<path \o ": expected object, got " \o TypeOf(value)>>
           ELSE IF Has(schema, "properties")
           THEN MissingRequired(value, schema, path)
                \o
                Concat([k \in 1..Len(value.entries) |->
                          LET key == value.entries[k][1]
                              propSchema == PropSchema(schema, key)
                          IN  IF propSchema # Undefined
                              THEN validateValue(value.entries[k][2], propSchema,
                                                 path \o "." \o key)
                              ELSE <<>>])
           ELSE <<>>
      [] OTHER -> <<>>

\* The absent schema (inputSchema === null)
NoSchema == Null

\* Mutant: the verdict no longer follows the error list
validateInputAlwaysValid(input, schema) ==
    IF schema = NoSchema THEN [valid |-> TRUE, errors |-> <<>>]
    ELSE [valid |-> TRUE, errors |-> validateValue(input, schema, "root")]

\* Mutant: an absent schema fails every input
validateInputRequiresSchema(input, schema) ==
    IF schema = NoSchema
    THEN [valid |-> FALSE, errors |-> <<"root: no schema to validate against">>]
    ELSE LET errors == validateValue(input, schema, "root")
         IN  [valid |-> Len(errors) = 0, errors |-> errors]

generateSampleInput(inputSchema) ==
    IF inputSchema = NoSchema THEN Obj(<<>>)
    ELSE generateSampleValue(inputSchema)

validateInput(input, schema) ==
    IF schema = NoSchema THEN [valid |-> TRUE, errors |-> <<>>]
    ELSE LET errors == validateValue(input, schema, "root")
         IN  [valid |-> Len(errors) = 0, errors |-> errors]

(***************************************************************************)
(* The recursion of the two functions, call by call.                       *)
(***************************************************************************)
\* The schemas generateSampleValue(schema) calls itself on, in call order
GenerateCalls(schema) ==
    CASE SchemaType(schema) = "array" /\ Has(schema, "items") ->
           <<[fn |-> "generateSampleValue", schema |-> schema.items, next |-> 1]>>
      [] SchemaType(schema) = "object" /\ Has(schema, "properties") ->
           [k \in 1..Len(SampledProperties(schema)) |->
              [fn |-> "generateSampleValue",
               schema |-> SampledProperties(schema)[k][2], next |-> 1]]
      [] OTHER -> <<>>

\* The (value, schema) pairs validateValue(value, schema, _) calls itself
\* on, in call order
ValidateCalls(value, schema) ==
    IF IsAbsent(value) THEN <<>>
    ELSE
    CASE SchemaType(schema) = "array" /\ IsArray(value) /\ Has(schema, "items") ->
           [k \in 1..Len(value.items) |->
              [fn |-> "validateValue", value |-> value.items[k],
               schema |-> schema.items, next |-> 1]]
      [] SchemaType(schema) = "object" /\ TypeOf(value) = "object"
         /\ ~IsArray(value) /\ Has(schema, "properties") ->
           LET Checked(entry) == PropSchema(schema, entry[1]) # Undefined
               entries == SelectSeq(value.entries, Checked)
           IN  [k \in 1..Len(entries) |->
                  [fn |-> "validateValue", value |-> entries[k][2],
                   schema |-> PropSchema(schema, entries[k][1]), next |-> 1]]
      [] OTHER -> <<>>

\* The calls a stack frame makes; next counts the ones it has made
FrameCalls(f) ==
    IF f.fn = "generateSampleValue" THEN GenerateCalls(f.schema)
    ELSE ValidateCalls(f.value, f.schema)

(***************************************************************************)
(* The inputs of the pure functions: a bounded set of schemas that mixes   *)
(* every constraint field, and a set of values of every type.              *)
(***************************************************************************)
\* The ways of declaring, or leaving out, one optional field
Opt(field, vals) == {<<>>} \cup {[f \in {field} |-> v] : v \in vals}

StringSchemas ==
    {[type |-> "string"] @@ e @@ d @@ mn @@ mx :
        e \in Opt("enum", {<<>>, <<"a">>, <<"abc", "a">>}),
        d \in Opt("default", {Str(""), Str("abc")}),
        mn \in Opt("minLength", {2}),
        mx \in Opt("maxLength", {5})}
    \cup {[type |-> "string", minLength |-> 3, maxLength |-> 1],
          [type |-> "string", minLength |-> 3, maxLength |-> 1,
           enum |-> <<"a", "b">>]}

NumberSchemas ==
    {[type |-> ty] @@ d @@ mn @@ mx :
        ty \in {"number", "integer"},
        d \in Opt("default", {Whole(0), Whole(3)}),
        mn \in Opt("minimum", {0, 3}),
        mx \in Opt("maximum", {-2, 20})}

BooleanSchemas ==
    {[type |-> "boolean"] @@ d : d \in Opt("default", {Bool(TRUE), Bool(FALSE)})}

UntypedSchemas ==
    {[description |-> "anything"], [default |-> Str("abc")],
     [type |-> "null"], [type |-> "date", minimum |-> 0]}

LeafSchemas ==
    StringSchemas \cup NumberSchemas \cup BooleanSchemas \cup UntypedSchemas

\* The schemas used for the properties of the object schemas
PropSchemas ==
    {[type |-> "string"], [type |-> "string", minLength |-> 2],
     [type |-> "integer", minimum |-> 0], [type |-> "number", maximum |-> -2],
     [type |-> "boolean"], [type |-> "array", items |-> [type |-> "string"]]}

ArraySchemas ==
    {[type |-> "array"] @@ it : it \in Opt("items", LeafSchemas)}
    \cup {[type |-> "array", items |-> [type |-> "string"], minItems |-> 2]}

ObjectSchemas ==
    {[type |-> "object"] @@ p @@ r :
        p \in Opt("properties",
                  {<<>>} \cup {<<<<"a", s>>>> : s \in PropSchemas}
                  \cup {<<<<"a", s>>, <<"b", u>>>> : s, u \in PropSchemas}),
        r \in Opt("required",
                  {<<>>, <<"a">>, <<"b", "a">>, <<"c", "b">>, <<"toString">>})}

NestedSchemas ==
    {[type |-> "object",
      properties |-> <<<<"list", [type |-> "array",
                                  items |-> [type |-> "object",
                                             properties |-> <<<<"a", s>>>>,
                                             required |-> <<"a">>]]>>>>] :
        s \in PropSchemas}

Schemas == LeafSchemas \cup ArraySchemas \cup ObjectSchemas \cup NestedSchemas

Values ==
    {Null, Undefined,
     Str(""), Str("a"), Str("zz"), Str("abc"), Str("sample string"),
     Whole(0), Whole(5), Whole(-1), Num(11), Whole(11),
     Bool(TRUE), Bool(FALSE),
     Arr(<<>>), Arr(<<Str("abc")>>), Arr(<<Whole(1), Whole(-1), Str("x")>>),
     Obj(<<>>), Obj(<<<<"a", Str("abc")>>>>), Obj(<<<<"a", Null>>>>),
     Obj(<<<<"constructor", Whole(1)>>>>),
     Obj(<<<<"b", Whole(5)>>, <<"a", Str("a")>>>>),
     Obj(<<<<"a", Whole(-1)>>, <<"b", Whole(-1)>>, <<"c", Str("x")>>>>),
     Obj(<<<<"list", Arr(<<Obj(<<>>), Obj(<<<<"a", Str("a")>>>>)>>)>>>>)}

(***************************************************************************)
(* The inputs of testEndpoint: endpoints, sample inputs, what the execute  *)
(* collaborator may answer or throw, how long it takes, and the random     *)
(* part of a test identifier.                                              *)
(***************************************************************************)
MaxCalls == 2

Calls == 1..MaxCalls

ProjectNames == {"demo"}

TypedSchema ==
    [type |-> "object",
     properties |-> <<<<"name", [type |-> "string", minLength |-> 2]>>,
                      <<"count", [type |-> "integer", minimum |-> 0]>>>>,
     required |-> <<"name", "count">>]

EpOpen ==
    [uuid |-> "ep-1", endpoint_name |-> "summarize", http_method |-> "POST",
     input_schema |-> NoSchema]

EpTyped ==
    [uuid |-> "ep-2", endpoint_name |-> "classify", http_method |-> "POST",
     input_schema |-> TypedSchema]

Endpoints == {EpOpen, EpTyped}

InputGood == Obj(<<<<"name", Str("text")>>, <<"count", Whole(3)>>>>)

InputEmpty == Obj(<<>>)

InputBad == Obj(<<<<"count", Num(-3)>>, <<"name", Str("x")>>>>)

SampleInputs == {InputGood, InputEmpty, InputBad}

Usage == Obj(<<<<"tokens_input", Whole(12)>>, <<"tokens_output", Whole(34)>>>>)

PayUsage == Obj(<<<<"output", Str("ok")>>, <<"usage", Usage>>>>)

PayPlain == Obj(<<<<"output", Str("ok")>>>>)

PayUsageNull == Obj(<<<<"output", Str("ok")>>, <<"usage", Null>>>>)

PayUsageEmpty == Obj(<<<<"output", Str("ok")>>, <<"usage", Obj(<<>>)>>>>)

PayText == Str("ok")

Payloads ==
    {PayUsage, PayPlain, PayUsageNull, PayUsageEmpty, PayText,
     Arr(<<Str("ok")>>), Null}

\* What execute may resolve with: { success, data?, error? }
Responses ==
    {[success |-> TRUE, data |-> p] : p \in Payloads}
    \cup {[success |-> TRUE],
          [success |-> FALSE, error |-> "Rate limit exceeded"],
          [success |-> FALSE, error |-> "Bad output", data |-> PayUsage],
          [success |-> FALSE]}

\* What execute may throw: an Error with its message, or any other value
Faults ==
    {[isError |-> TRUE, message |-> "Network error"],
     [isError |-> TRUE, message |-> ""],
     [isError |-> FALSE, thrown |-> Str("timeout")]}

Outcomes ==
    {[kind |-> "response", response |-> r] : r \in Responses}
    \cup {[kind |-> "throw", fault |-> f] : f \in Faults}

\* The inputs used where several invocations overlap
CoreCases == {<<EpTyped, InputGood>>, <<EpTyped, InputEmpty>>}

CoreOutcomes ==
    {[kind |-> "response", response |-> [success |-> TRUE, data |-> PayUsage]],
     [kind |-> "response",
      response |-> [success |-> FALSE, error |-> "Rate limit exceeded"]],
     [kind |-> "throw", fault |-> [isError |-> TRUE, message |-> "Network error"]]}

\* Milliseconds the execute call may take
Delays == {0, 40}

\* Math.random().toString(36).slice(2, 9)
RandomSuffixes == {"k3x9q2a", "0b7zz1f"}

CoreDelays == {40}

CoreSuffixes == {"k3x9q2a"}

(***************************************************************************)
(* The parts of testEndpoint.                                              *)
(***************************************************************************)
Thrown(fault) == [thrown |-> TRUE, fault |-> fault]

Returned(value) == [thrown |-> FALSE, value |-> value]

TypeError(message) == [isError |-> TRUE, message |-> message]

\* `${v}` for the values a TypeError message names
ValueToString(v) ==
    CASE v.t = "string" -> v.s
      [] v.t = "number" -> NumToString(v.h)
      [] v.t = "boolean" -> IF v.b THEN "true" ELSE "false"
      [] OTHER -> v.t

\* response.data, undefined when the response carries none
ResponseData(response) ==
    IF Has(response, "data") THEN response.data ELSE Undefined

\* Mutant: the payload is passed on whatever the response reports
ResponseOutputAlways(response) == ResponseData(response)

\* response.success ? response.data : null
ResponseOutput(response) ==
    IF response.success THEN ResponseData(response) ELSE Null

\* response.success && response.data && 'usage' in response.data
\*     ? response.data.usage[field] : null
TokenCount(response, field) ==
    LET data == ResponseData(response)
    IN  IF ~(response.success /\ Truthy(data)) THEN Returned(Null)
        ELSE IF TypeOf(data) # "object"
        THEN Thrown(TypeError("Cannot use 'in' operator to search for 'usage' in "
                              \o ValueToString(data)))
        ELSE IF IsArray(data) \/ ~InOp("usage", data) THEN Returned(Null)
        ELSE LET usage == GetProp(data, "usage")
             IN  IF usage.t \in {"null", "undefined"}
                 THEN Thrown(TypeError("Cannot read properties of " \o usage.t
                                       \o " (reading '" \o field \o "')"))
                 ELSE IF usage.t = "object" THEN Returned(GetProp(usage, field))
                 ELSE Returned(Undefined)

\* The result of the validation-failure path
InvalidResult(f, validationResult, t) ==
    [id |-> f.ids[1].testId,
     endpointId |-> f.endpoint.uuid,
     endpointName |-> f.endpoint.endpoint_name,
     input |-> f.sampleInput,
     output |-> Null,
     success |-> FALSE,
     error |-> Str("Input validation failed: "
                   \o Join(validationResult.errors, ", ")),
     timestamp |-> t,
     latencyMs |-> Null,
     tokensInput |-> Null,
     tokensOutput |-> Null]

\* The result built from the response of execute; building it throws when a
\* token count does
ResponseResult(f, response, t) ==
    LET tokensInput == TokenCount(response, "tokens_input")
        tokensOutput == TokenCount(response, "tokens_output")
    IN  IF tokensInput.thrown THEN tokensInput
        ELSE IF tokensOutput.thrown THEN tokensOutput
        ELSE Returned(
          [id |-> f.ids[1].testId,
           endpointId |-> f.endpoint.uuid,
           endpointName |-> f.endpoint.endpoint_name,
           input |-> f.sampleInput,
           output |-> ResponseOutput(response),
           success |-> response.success,
           error |-> IF Has(response, "error") THEN Str(response.error) ELSE Null,
           timestamp |-> t,
           latencyMs |-> Whole(t - f.ids[1].startTime),
           tokensInput |-> tokensInput.value,
           tokensOutput |-> tokensOutput.value])

\* Mutant: the fallback text replaces every fault's own message
ErrorMessageGeneric(err) == "Test failed"

\* err instanceof Error ? err.message : 'Test failed'
ErrorMessage(err) == IF err.isError THEN err.message ELSE "Test failed"

\* The result of the catch block
CaughtResult(f, err, t) ==
    [id |-> f.ids[1].testId,
     endpointId |-> f.endpoint.uuid,
     endpointName |-> f.endpoint.endpoint_name,
     input |-> f.sampleInput,
     output |-> Null,
     success |-> FALSE,
     error |-> Str(ErrorMessage(err)),
     timestamp |-> t,
     latencyMs |-> Whole(t - f.ids[1].startTime),
     tokensInput |-> Null,
     tokensOutput |-> Null]

\* Where a completion of the try statement leaves the invocation: the
\* results it created and recorded, the messages it gave setError, and
\* whether the function returns or throws
Completion(kind, results, errors) ==
    [kind |-> kind, results |-> results, errors |-> errors]

\* The catch block, run on a fault thrown inside the try block
CatchBlock(f, err, t) ==
    Completion("return", <<CaughtResult(f, err, t)>>, <<ErrorMessage(err)>>)

\* Mutant: the result is built outside the try block, so a fault thrown
\* while building it leaves the function
AfterAwaitUncaught(f, outcome, t) ==
    IF outcome.kind = "throw" THEN CatchBlock(f, outcome.fault, t)
    ELSE LET built == ResponseResult(f, outcome.response, t)
         IN  IF built.thrown THEN Completion("throw", <<>>, <<>>)
             ELSE Completion("return", <<built.value>>, <<>>)

\* The try statement from the point where execute settles
AfterAwait(f, outcome, t) ==
    IF outcome.kind = "throw" THEN CatchBlock(f, outcome.fault, t)
    ELSE LET built == ResponseResult(f, outcome.response, t)
         IN  IF built.thrown THEN CatchBlock(f, built.fault, t)
             ELSE Completion("return", <<built.value>>, <<>>)

\* Mutant: the result never reaches the log
PrependDropped(result, prev) == prev

\* Mutant: the result is put at the end of the log
PrependAtEnd(result, prev) == prev \o <<result>>

\* setTestResults(prev => [result, ...prev])
Prepend(result, prev) == <<result>> \o prev

(***************************************************************************)
(* State.                                                                  *)
(***************************************************************************)
VARIABLES
    schemaIn,     \* the schema the caller holds (NoSchema when absent)
    valueIn,      \* the value the caller holds
    sample,       \* <<v>>: what the last generateSampleInput call returned
    validation,   \* <<[input, result]>>: the last validateInput call
    testResults,  \* useState: the result log, most recent first
    isLoading,    \* useState
    error,        \* useState: Null or a message
    now,          \* Date.now()
    running,      \* the invocation whose code is on the stack, 0 for none
    pc,           \* where each invocation of testEndpoint stands
    frame,        \* the arguments and locals of each invocation
    hist,         \* per invocation: calls of execute, how execute settled,
                  \* results created and recorded, how its promise settled
    started,      \* the invocations in the order they began
    completed,    \* the invocations in the order they recorded a result
    cleared,      \* whether clearResults was ever called
    sinceClear,   \* the invocations that recorded a result since the last
                  \* clearResults, most recent first, and those that were
                  \* waiting for execute when it was called
    walk,         \* the call stack of a generateSampleValue / validateValue run
    manager,      \* a mounted manager hook: its props, its ref, what it fetched
    store,        \* the endpoints store
    endpointsManager, \* a mounted useEndpointsManager with its client hook
    budgetTracker  \* useBudgetTracker: the budgets, the alerts, the last check

pureVars == <<schemaIn, valueIn, sample, validation>>

otherVars == <<walk, manager, store, endpointsManager, budgetTracker>>

testerVars ==
    <<testResults, isLoading, error, now, running, pc, frame, hist,
      started, completed, cleared, sinceClear>>

vars ==
    <<schemaIn, valueIn, sample, validation, testResults, isLoading, error,
      now, running, pc, frame, hist, started, completed, cleared, sinceClear,
      walk, manager, store, endpointsManager, budgetTracker>>

WalkIdle == [phase |-> "idle", stack |-> <<>>]

ManagerUnmounted == [mounted |-> FALSE]

StoreEmpty == [cache |-> <<>>, clearedUser |-> <<>>]

\* The state of the hook after its first render
InitTester ==
    /\ testResults = <<>>
    /\ isLoading = FALSE
    /\ error = Null
    /\ now = 0
    /\ running = 0
    /\ pc = [i \in Calls |-> "idle"]
    /\ frame = [i \in Calls |-> <<>>]
    /\ hist = [i \in Calls |->
                 [executeCalls |-> 0, outcome |-> <<>>, created |-> <<>>,
                  prepended |-> <<>>, settled |-> <<>>]]
    /\ started = <<>>
    /\ completed = <<>>
    /\ cleared = FALSE
    /\ sinceClear = [recorded |-> <<>>, suspended |-> {}]

\* No walk under way, no manager hook mounted, an empty store
EndpointsManagerUnmounted == [mounted |-> FALSE]

BudgetTrackerEmpty == [budgets |-> <<>>, alerts |-> <<>>, checked |-> <<>>]

InitOther ==
    /\ walk = WalkIdle
    /\ manager = ManagerUnmounted
    /\ store = StoreEmpty
    /\ endpointsManager = EndpointsManagerUnmounted
    /\ budgetTracker = BudgetTrackerEmpty

InitPure ==
    /\ schemaIn \in Schemas \cup {NoSchema}
    /\ valueIn \in Values
    /\ sample = <<>>
    /\ validation = <<>>
    /\ InitTester
    /\ InitOther

Init ==
    /\ schemaIn = NoSchema
    /\ valueIn = Null
    /\ sample = <<>>
    /\ validation = <<>>
    /\ InitTester
    /\ InitOther

\* generateSampleInput(schemaIn) is called
GenerateSampleInput ==
    /\ sample' = <<generateSampleInput(schemaIn)>>
    /\ UNCHANGED <<schemaIn, valueIn, validation>>
    /\ UNCHANGED <<testerVars, otherVars>>

\* validateInput(input, schemaIn) is called, on the caller's value or on
\* the sample generated before
ValidateInput ==
    /\ \E input \in {valueIn} \cup Range(sample) :
          validation' = <<[input |-> input,
                           result |-> validateInput(input, schemaIn)]>>
    /\ UNCHANGED <<schemaIn, valueIn, sample>>
    /\ UNCHANGED <<testerVars, otherVars>>

(***************************************************************************)
(* One run of generateSampleValue(schemaIn) or of validateValue(valueIn,    *)
(* schemaIn, 'root'), a call and a return at a time.                       *)
(***************************************************************************)
WalkGenerate ==
    /\ walk.phase = "idle"
    /\ schemaIn # NoSchema
    /\ walk' = [phase |-> "running",
                stack |-> <<[fn |-> "generateSampleValue", schema |-> schemaIn,
                             next |-> 1]>>]
    /\ UNCHANGED <<pureVars, testerVars, manager, store, endpointsManager, budgetTracker>>

WalkValidate ==
    /\ walk.phase = "idle"
    /\ schemaIn # NoSchema
    /\ walk' = [phase |-> "running",
                stack |-> <<[fn |-> "validateValue", value |-> valueIn,
                             schema |-> schemaIn, next |-> 1]>>]
    /\ UNCHANGED <<pureVars, testerVars, manager, store, endpointsManager, budgetTracker>>

\* The frame on top makes its next recursive call
WalkCall ==
    /\ walk.phase = "running"
    /\ LET top == walk.stack[Len(walk.stack)]
       IN  /\ top.next <= Len(FrameCalls(top))
           /\ walk' = [walk EXCEPT
                         !.stack = Append([@ EXCEPT ![Len(@)].next = top.next + 1],
                                          FrameCalls(top)[top.next])]
    /\ UNCHANGED <<pureVars, testerVars, manager, store, endpointsManager, budgetTracker>>

\* The frame on top has made all its calls and returns
WalkReturn ==
    /\ walk.phase = "running"
    /\ LET top == walk.stack[Len(walk.stack)]
       IN  /\ top.next > Len(FrameCalls(top))
           /\ walk' = [phase |-> IF Len(walk.stack) = 1 THEN "returned"
                                 ELSE "running",
                       stack |-> SubSeq(walk.stack, 1, Len(walk.stack) - 1)]
    /\ UNCHANGED <<pureVars, testerVars, manager, store, endpointsManager, budgetTracker>>

(***************************************************************************)
(* testEndpoint.  JavaScript runs an invocation without interruption up to *)
(* its await and again from the point where execute settles; running names *)
(* the invocation on the stack.  Time passes while an invocation waits.    *)
(***************************************************************************)
\* The call, and setIsLoading(true); setError(null)
TestEndpointCall(i, projectName, endpoint, sampleInput) ==
    /\ running = 0
    /\ pc[i] = "idle"
    /\ running' = i
    /\ isLoading' = TRUE
    /\ error' = Null
    /\ frame' = [frame EXCEPT ![i] =
                   <<[projectName |-> projectName, endpoint |-> endpoint,
                      sampleInput |-> sampleInput, ids |-> <<>>,
                      completion |-> <<>>]>>]
    /\ started' = Append(started, i)
    /\ pc' = [pc EXCEPT ![i] = "entered"]
    /\ UNCHANGED <<testResults, now, hist, completed, cleared, sinceClear>>
    /\ UNCHANGED <<pureVars, otherVars>>

\* const startTime = Date.now(); const testId = `test-${Date.now()}-${...}`
TestEndpointTakeIds(i, suffix) ==
    /\ running = i
    /\ pc[i] = "entered"
    /\ frame' = [frame EXCEPT ![i][1].ids =
                   <<[startTime |-> now,
                      testId |-> "test-" \o ToString(now) \o "-" \o suffix]>>]
    /\ pc' = [pc EXCEPT ![i] = "validating"]
    /\ UNCHANGED <<testResults, isLoading, error, now, running, hist,
                   started, completed, cleared, sinceClear>>
    /\ UNCHANGED <<pureVars, otherVars>>

\* Mutant: the verdict is ignored and execute is always called
ValidationStepSkipped(f, t) == <<>>

\* What the validation step does with its verdict: the completion of the
\* failure path, or <<>> to go on to execute
ValidationStep(f, t) ==
    LET v == validateInput(f.sampleInput, f.endpoint.input_schema)
    IN  IF ~v.valid
        THEN <<Completion("return", <<InvalidResult(f, v, t)>>, <<>>)>>
        ELSE <<>>

\* Records a completion: setError, setTestResults, and the return value;
\* outcome is <<o>> when the completion follows execute settling with o
Settle(i, c, outcome) ==
    /\ testResults' = IF c.results # <<>>
                      THEN Prepend(c.results[1], testResults)
                      ELSE testResults
    /\ error' = IF c.errors # <<>> THEN Str(c.errors[1]) ELSE error
    /\ frame' = [frame EXCEPT ![i][1].completion = <<c>>]
    /\ hist' = [hist EXCEPT ![i].outcome = outcome,
                            ![i].created = @ \o c.results,
                            ![i].prepended = @ \o c.results]
    /\ completed' = IF c.results # <<>> THEN Append(completed, i) ELSE completed
    /\ sinceClear' = IF c.results # <<>>
                     THEN [sinceClear EXCEPT !.recorded = <<i>> \o @]
                     ELSE sinceClear
    /\ pc' = [pc EXCEPT ![i] = "finally"]

\* validateInput(sampleInput, endpoint.input_schema) and the failure path
TestEndpointValidate(i) ==
    /\ running = i
    /\ pc[i] = "validating"
    /\ LET step == ValidationStep(frame[i][1], now)
       IN  IF step # <<>>
           THEN Settle(i, step[1], <<>>)
           ELSE /\ pc' = [pc EXCEPT ![i] = "calling"]
                /\ UNCHANGED <<testResults, error, frame, hist, completed, sinceClear>>
    /\ UNCHANGED <<isLoading, now, running, started, cleared>>
    /\ UNCHANGED <<pureVars, otherVars>>

\* await aiExecute.execute(...): the call is made and the invocation waits
TestEndpointExecute(i) ==
    /\ running = i
    /\ pc[i] = "calling"
    /\ hist' = [hist EXCEPT ![i].executeCalls = @ + 1]
    /\ pc' = [pc EXCEPT ![i] = "awaiting"]
    /\ running' = 0
    /\ UNCHANGED <<testResults, isLoading, error, now, frame, started,
                   completed, cleared, sinceClear>>
    /\ UNCHANGED <<pureVars, otherVars>>

\* Mutant: a thrown fault is answered with one more call of execute
TestEndpointResumeRetrying(i, outcome, delay) ==
    /\ running = 0
    /\ pc[i] = "awaiting"
    /\ running' = i
    /\ now' = now + delay
    /\ IF outcome.kind = "throw" /\ hist[i].executeCalls < 2
       THEN /\ pc' = [pc EXCEPT ![i] = "calling"]
            /\ UNCHANGED <<testResults, error, frame, hist, completed, sinceClear>>
       ELSE Settle(i, AfterAwait(frame[i][1], outcome, now + delay), <<outcome>>)
    /\ UNCHANGED <<isLoading, started, cleared>>
    /\ UNCHANGED <<pureVars, otherVars>>

\* execute settles after delay ms and the invocation goes on to its result
TestEndpointResume(i, outcome, delay) ==
    /\ running = 0
    /\ pc[i] = "awaiting"
    /\ running' = i
    /\ now' = now + delay
    /\ Settle(i, AfterAwait(frame[i][1], outcome, now + delay), <<outcome>>)
    /\ UNCHANGED <<isLoading, started, cleared>>
    /\ UNCHANGED <<pureVars, otherVars>>

\* How the promise of an invocation settles once the finally block has run
Settlement(c) ==
    IF c.kind = "return"
    THEN [kind |-> "resolved", value |-> c.results[Len(c.results)]]
    ELSE [kind |-> "rejected"]

\* Mutant: the finally block leaves the flag as it is
TestEndpointFinallyKeepsLoading(i) ==
    /\ running = i
    /\ pc[i] = "finally"
    /\ hist' = [hist EXCEPT ![i].settled = <<Settlement(frame[i][1].completion[1])>>]
    /\ pc' = [pc EXCEPT ![i] = "done"]
    /\ running' = 0
    /\ UNCHANGED <<testResults, isLoading, error, now, frame, started,
                   completed, cleared, sinceClear>>
    /\ UNCHANGED <<pureVars, otherVars>>

\* finally { setIsLoading(false) }, and the promise settles
TestEndpointFinally(i) ==
    /\ running = i
    /\ pc[i] = "finally"
    /\ isLoading' = FALSE
    /\ hist' = [hist EXCEPT ![i].settled = <<Settlement(frame[i][1].completion[1])>>]
    /\ pc' = [pc EXCEPT ![i] = "done"]
    /\ running' = 0
    /\ UNCHANGED <<testResults, error, now, frame, started, completed, cleared,
                   sinceClear>>
    /\ UNCHANGED <<pureVars, otherVars>>

\* Mutant: clearing the results also abandons the invocations that wait
\* for execute
clearResultsCancelsPending ==
    /\ running = 0
    /\ testResults' = <<>>
    /\ error' = Null
    /\ cleared' = TRUE
    /\ sinceClear' = [recorded |-> <<>>,
                      suspended |-> {i \in Calls : pc[i] = "awaiting"}]
    /\ pc' = [i \in Calls |-> IF pc[i] = "awaiting" THEN "done" ELSE pc[i]]
    /\ UNCHANGED <<isLoading, now, running, frame, hist, started, completed>>
    /\ UNCHANGED <<pureVars, otherVars>>

\* Mutant: clearing the results also ends the loading state
clearResultsStopsLoading ==
    /\ running = 0
    /\ testResults' = <<>>
    /\ error' = Null
    /\ isLoading' = FALSE
    /\ cleared' = TRUE
    /\ sinceClear' = [recorded |-> <<>>,
                      suspended |-> {i \in Calls : pc[i] = "awaiting"}]
    /\ UNCHANGED <<now, running, pc, frame, hist, started, completed>>
    /\ UNCHANGED <<pureVars, otherVars>>

\* clearResults: setTestResults([]); setError(null)
clearResults ==
    /\ running = 0
    /\ testResults' = <<>>
    /\ error' = Null
    /\ cleared' = TRUE
    /\ sinceClear' = [recorded |-> <<>>,
                      suspended |-> {i \in Calls : pc[i] = "awaiting"}]
    /\ UNCHANGED <<isLoading, now, running, pc, frame, hist, started, completed>>
    /\ UNCHANGED <<pureVars, otherVars>>

(***************************************************************************)
(* The endpoints store: a cache of endpoint lists under one string key per *)
(* user and project.                                                       *)
(***************************************************************************)
\* `${userId}:${projectId}`
makeCacheKey(userId, projectId) == userId \o <<":">> \o projectId

\* String.prototype.startsWith
StartsWith(str, prefix) ==
    Len(str) >= Len(prefix) /\ SubSeq(str, 1, Len(prefix)) = prefix

\* { ...cache, [key]: entry }
WithEntry(cache, key, entry) ==
    [k \in DOMAIN cache \cup {key} |-> IF k = key THEN entry ELSE cache[k]]

\* The cache without the keys of a set
WithoutKeys(cache, keys) == [k \in DOMAIN cache \ keys |-> cache[k]]

CacheEntry(endpoints) == [endpoints |-> endpoints, cachedAt |-> now]

\* get().cache[key]
getCacheEntry(userId, projectId) ==
    IF makeCacheKey(userId, projectId) \in DOMAIN store.cache
    THEN store.cache[makeCacheKey(userId, projectId)]
    ELSE Undefined

\* entry?.endpoints
getEndpoints(userId, projectId) ==
    IF getCacheEntry(userId, projectId) = Undefined THEN Undefined
    ELSE Arr(getCacheEntry(userId, projectId).endpoints)

\* What an operation leaves in the store: the new cache, and the user whose
\* entries it was asked to clear (<<>> for every operation but
\* clearUserEndpoints)
StoreState(cache, clearedUser) == [cache |-> cache, clearedUser |-> clearedUser]

\* The store's state after each operation, as the function the operation
\* hands to set(...) computes it from the state before
SetEndpointsState(state, userId, projectId, endpoints) ==
    StoreState(WithEntry(state.cache, makeCacheKey(userId, projectId),
                         CacheEntry(endpoints)), <<>>)

AddEndpointState(state, userId, projectId, endpoint) ==
    LET key == makeCacheKey(userId, projectId)
    IN  IF key \notin DOMAIN state.cache
        THEN StoreState(WithEntry(state.cache, key, CacheEntry(<<endpoint>>)), <<>>)
        ELSE StoreState(WithEntry(state.cache, key,
                                  CacheEntry(Append(state.cache[key].endpoints,
                                                    endpoint))), <<>>)

UpdateEndpointState(state, userId, projectId, endpointId, endpoint) ==
    LET key == makeCacheKey(userId, projectId)
    IN  IF key \notin DOMAIN state.cache
        THEN StoreState(state.cache, <<>>)
        ELSE LET existing == state.cache[key].endpoints
             IN  StoreState(WithEntry(state.cache, key,
                                      CacheEntry([k \in 1..Len(existing) |->
                                                    IF existing[k].uuid = endpointId
                                                    THEN endpoint
                                                    ELSE existing[k]])), <<>>)

RemoveEndpointState(state, userId, projectId, endpointId) ==
    LET key == makeCacheKey(userId, projectId)
        Kept(e) == e.uuid # endpointId
    IN  IF key \notin DOMAIN state.cache
        THEN StoreState(state.cache, <<>>)
        ELSE StoreState(WithEntry(state.cache, key,
                                  CacheEntry(SelectSeq(state.cache[key].endpoints,
                                                       Kept))), <<>>)

setEndpoints(userId, projectId, endpoints) ==
    /\ store' = SetEndpointsState(store, userId, projectId, endpoints)
    /\ UNCHANGED <<pureVars, testerVars, walk, manager, endpointsManager, budgetTracker>>

\* The lists of the model stay as short as the set of endpoints is large
addEndpoint(userId, projectId, endpoint) ==
    /\ LET key == makeCacheKey(userId, projectId)
       IN  key \in DOMAIN store.cache =>
              Len(store.cache[key].endpoints) < Cardinality(Endpoints)
    /\ store' = AddEndpointState(store, userId, projectId, endpoint)
    /\ UNCHANGED <<pureVars, testerVars, walk, manager, endpointsManager, budgetTracker>>

updateEndpoint(userId, projectId, endpointId, endpoint) ==
    /\ store' = UpdateEndpointState(store, userId, projectId, endpointId, endpoint)
    /\ UNCHANGED <<pureVars, testerVars, walk, manager, endpointsManager, budgetTracker>>

removeEndpoint(userId, projectId, endpointId) ==
    /\ store' = RemoveEndpointState(store, userId, projectId, endpointId)
    /\ UNCHANGED <<pureVars, testerVars, walk, manager, endpointsManager, budgetTracker>>

clearEndpoints(userId, projectId) ==
    /\ store' = StoreState(WithoutKeys(store.cache,
                                       {makeCacheKey(userId, projectId)}), <<>>)
    /\ UNCHANGED <<pureVars, testerVars, walk, manager, endpointsManager, budgetTracker>>

clearUserEndpoints(userId) ==
    /\ LET prefix == userId \o <<":">>
       IN  store' = StoreState(WithoutKeys(store.cache,
                                           {key \in DOMAIN store.cache :
                                              StartsWith(key, prefix)}),
                               <<userId>>)
    /\ UNCHANGED <<pureVars, testerVars, walk, manager, endpointsManager, budgetTracker>>

clearAll ==
    /\ store' = StoreState(<<>>, <<>>)
    /\ UNCHANGED <<pureVars, testerVars, walk, manager, endpointsManager, budgetTracker>>

(***************************************************************************)
(* A manager hook (useEndpointsManager, useProjectsManager,                *)
(* useSettingsManager): its props, the ref that remembers an auto-fetch    *)
(* attempt, and the two effects that use it.  React runs the effects of a  *)
(* commit in the order the hook declares them, each one only when one of   *)
(* its dependencies changed (all of them on mount).                        *)
(***************************************************************************)
ManagerHooks == {"endpoints", "projects", "settings"}

Tokens == {Null, Str("tok-1"), Str("tok-2")}

\* Identifiers are strings, kept as sequences of characters so that a
\* key can be taken apart; some of them hold the ':' of makeCacheKey
UserIds == {<<"a">>, <<"a", ":", "b">>, <<"b">>}

ProjectIds == {<<"c">>, <<"b", ":", "c">>}

ParamsIdentities == {"params-1", "params-2"}

ManagerProps ==
    [autoFetch : BOOLEAN, token : Tokens, userId : UserIds,
     projectId : ProjectIds, params : ParamsIdentities]

\* The props a hook takes: useProjectsManager has no projectId,
\* useSettingsManager neither projectId nor params
HookProps(hook) ==
    {p \in ManagerProps :
        /\ hook \in {"projects", "settings"} => p.projectId = <<"c">>
        /\ hook = "settings" => p.params = "params-1"}

\* useEffect(() => { if (autoFetch && token && endpoints.length === 0 &&
\* !hasAttemptedFetchRef.current) { ...current = true; refresh(); } }, ...)
AutoFetchEffect(m) ==
    IF m.props.autoFetch /\ Truthy(m.props.token) /\ m.empty
       /\ ~m.hasAttemptedFetchRef
    THEN [m EXCEPT !.hasAttemptedFetchRef = TRUE,
                   !.refreshes = @ + 1,
                   !.lastRefresh = <<m.props>>]
    ELSE m

\* useEffect(() => { hasAttemptedFetchRef.current = false; }, [token])
ResetAttemptEffect(m) == [m EXCEPT !.hasAttemptedFetchRef = FALSE]

\* The effects of one commit, in declaration order
CommitEffects(m, fetchDepsChanged, tokenChanged) ==
    LET afterFetch == IF fetchDepsChanged THEN AutoFetchEffect(m) ELSE m
    IN  IF tokenChanged THEN ResetAttemptEffect(afterFetch) ELSE afterFetch

\* The first render: the ref starts false and every effect runs.  The data
\* the hook exposes is empty unless the store already holds a cached list.
ManagerMount(hook, props, empty) ==
    /\ ~manager.mounted
    /\ manager' = CommitEffects([mounted |-> TRUE, hook |-> hook, props |-> props,
                                 empty |-> empty, hasAttemptedFetchRef |-> FALSE,
                                 refreshes |-> 0, lastRefresh |-> <<>>],
                                TRUE, TRUE)
    /\ UNCHANGED <<pureVars, testerVars, walk, store, endpointsManager, budgetTracker>>

\* A render with other props.  autoFetch and token are dependencies of the
\* auto-fetch effect, and userId, projectId, params and token change the
\* identity of refresh, which is one too.  refreshes counts the refresh
\* calls made while the token and the empty data stayed as they are.
ManagerRender(props) ==
    /\ manager.mounted
    /\ props \in HookProps(manager.hook)
    /\ props # manager.props
    /\ LET tokenChanged == props.token # manager.props.token
       IN  manager' =
              CommitEffects([manager EXCEPT
                               !.props = props,
                               !.refreshes = IF tokenChanged THEN 0 ELSE @],
                            TRUE, tokenChanged)
    /\ UNCHANGED <<pureVars, testerVars, walk, store, endpointsManager, budgetTracker>>

\* The client's list (or the cached one) becomes non-empty:
\* endpoints.length changes and the auto-fetch effect runs again
ManagerDataArrives ==
    /\ manager.mounted
    /\ manager.empty
    /\ manager' = CommitEffects([manager EXCEPT !.empty = FALSE, !.refreshes = 0],
                                TRUE, FALSE)
    /\ UNCHANGED <<pureVars, testerVars, walk, store, endpointsManager, budgetTracker>>

\* The exposed list becomes empty again
ManagerDataCleared ==
    /\ manager.mounted
    /\ ~manager.empty
    /\ manager' = CommitEffects([manager EXCEPT !.empty = TRUE, !.refreshes = 0],
                                TRUE, FALSE)
    /\ UNCHANGED <<pureVars, testerVars, walk, store, endpointsManager, budgetTracker>>

(***************************************************************************)
(* useEndpointsManager on top of the store.  The client hook useEndpoints  *)
(* belongs to another package: all that is known of it is what the manager *)
(* passes to it and reads from it.  Its list changes when a refresh the    *)
(* manager asked for settles; the server it talks to holds one endpoint    *)
(* for every (userId, projectId) and a second one once createEndpoint was  *)
(* called for that pair.  The hook is mounted with autoFetch false, so     *)
(* every refresh is one its caller makes.                                  *)
(***************************************************************************)
ManagedUserIds == {<<"a">>, <<"b">>}

ManagedProjectIds == {<<"c">>}

ManagedTokens == {Null, Str("tok-1")}

EndpointsManagerProps ==
    [userId : ManagedUserIds, projectId : ManagedProjectIds, token : ManagedTokens]

\* The endpoints the server holds for a user's project: each has a uuid of
\* its own
ServerEndpoint(userId, projectId, name) ==
    [uuid |-> userId \o <<"/">> \o projectId \o <<"/", name>>]

ServerList(created, userId, projectId) ==
    IF <<userId, projectId>> \in created
    THEN <<ServerEndpoint(userId, projectId, "x"),
           ServerEndpoint(userId, projectId, "y")>>
    ELSE <<ServerEndpoint(userId, projectId, "x")>>

\* How a refresh settles: it fails, or it leaves in the client's list the
\* server's list, or nothing when the query parameters select no endpoint
RefreshResponses(created, userId, projectId) ==
    {[success |-> FALSE, data |-> Undefined]} \cup
    [success : {TRUE}, data : {<<>>, ServerList(created, userId, projectId)}]

\* The response of the client's create and update: data is the endpoint
\* or undefined
EndpointResponses(endpoint) ==
    [success : BOOLEAN, data : {endpoint, Undefined}]

\* The response of the client's delete carries no data
DeleteResponses == [success : BOOLEAN, data : {Undefined}]

\* cacheEntry?.endpoints ?? []
CachedEndpoints(m, state) ==
    LET key == makeCacheKey(m.props.userId, m.props.projectId)
    IN  IF key \in DOMAIN state.cache THEN state.cache[key].endpoints ELSE <<>>

\* One render: the list the hook exposes and isCached
Rendered(m, state) ==
    [m EXCEPT !.endpoints = IF Len(m.clientEndpoints) > 0
                            THEN m.clientEndpoints
                            ELSE CachedEndpoints(m, state),
              !.isCached = /\ Len(m.clientEndpoints) = 0
                           /\ Len(CachedEndpoints(m, state)) > 0]

\* Mutant: the sync effect copies the client's list whatever its length
SyncEffectAlways(m, state) ==
    SetEndpointsState(state, m.props.userId, m.props.projectId, m.clientEndpoints)

\* useEffect(() => { if (clientEndpoints.length > 0)
\*   setEndpoints(userId, projectId, clientEndpoints); }, ...)
SyncEffect(m, state) ==
    IF Len(m.clientEndpoints) > 0
    THEN SetEndpointsState(state, m.props.userId, m.props.projectId,
                           m.clientEndpoints)
    ELSE state

\* A commit: the sync effect runs when one of its dependencies changed,
\* and the store's change renders the hook again
Commit(m, state, syncDepsChanged) ==
    LET after == IF syncDepsChanged THEN SyncEffect(m, state) ELSE state
    IN  [manager |-> Rendered(m, after), store |-> after]

\* What the last step was: the operation the caller called, or the client
\* call that settled and with what
Step(m, called, settled) == [m EXCEPT !.called = called, !.settled = settled]

Request(op, props, endpointId) ==
    [op |-> op, userId |-> props.userId, projectId |-> props.projectId,
     endpointId |-> endpointId]

\* The caller waits for one refresh and for one change before asking for
\* the next
Mutations == {"create", "update", "delete"}

InFlight(op) ==
    \E r \in endpointsManager.requests :
       r.op = op \/ (op \in Mutations /\ r.op \in Mutations)

EndpointsManagerMount(props) ==
    /\ ~endpointsManager.mounted
    /\ LET c == Commit([mounted |-> TRUE, props |-> props,
                        clientEndpoints |-> <<>>, requests |-> {},
                        created |-> {}, endpoints |-> <<>>, isCached |-> FALSE,
                        called |-> "none", settled |-> <<>>],
                       store, TRUE)
       IN  /\ endpointsManager' = c.manager
           /\ store' = c.store
    /\ UNCHANGED <<pureVars, testerVars, walk, manager, budgetTracker>>

\* A render with other props: userId and projectId are dependencies of the
\* sync effect
EndpointsManagerRender(props) ==
    /\ endpointsManager.mounted
    /\ props # endpointsManager.props
    /\ LET c == Commit(Step([endpointsManager EXCEPT !.props = props],
                            "none", <<>>),
                       store,
                       \/ props.userId # endpointsManager.props.userId
                       \/ props.projectId # endpointsManager.props.projectId)
       IN  /\ endpointsManager' = c.manager
           /\ store' = c.store
    /\ UNCHANGED <<pureVars, testerVars, walk, manager, budgetTracker>>

\* refresh up to its await
refresh ==
    /\ endpointsManager.mounted
    /\ ~InFlight("refresh")
    /\ endpointsManager' =
          IF ~Truthy(endpointsManager.props.token)
          THEN Step(endpointsManager, "refresh", <<>>)
          ELSE Step([endpointsManager EXCEPT
                       !.requests = @ \cup {Request("refresh",
                                                    endpointsManager.props,
                                                    <<>>)}],
                    "refresh", <<>>)
    /\ UNCHANGED <<pureVars, testerVars, walk, manager, store, budgetTracker>>

\* The client's refresh settles: on success its list is a new array, which
\* is a dependency of the sync effect
clientRefreshSettles(r, response) ==
    /\ endpointsManager.mounted
    /\ r \in endpointsManager.requests
    /\ r.op = "refresh"
    /\ response \in RefreshResponses(endpointsManager.created, r.userId,
                                     r.projectId)
    /\ LET settled == [request |-> r, response |-> response]
           m == Step([endpointsManager EXCEPT
                        !.requests = @ \ {r},
                        !.clientEndpoints = IF response.success
                                            THEN response.data ELSE @],
                     "none", <<settled>>)
           c == Commit(m, store, response.success)
       IN  /\ endpointsManager' = c.manager
           /\ store' = c.store
    /\ UNCHANGED <<pureVars, testerVars, walk, manager, budgetTracker>>

\* Mutant: createEndpoint calls the client whether there is a token or not
createEndpointWithoutToken ==
    /\ endpointsManager.mounted
    /\ ~InFlight("create")
    /\ <<endpointsManager.props.userId, endpointsManager.props.projectId>>
          \notin endpointsManager.created
    /\ endpointsManager' =
          Step([endpointsManager EXCEPT
                  !.requests = @ \cup {Request("create", endpointsManager.props,
                                               <<>>)},
                  !.created = @ \cup {<<endpointsManager.props.userId,
                                        endpointsManager.props.projectId>>}],
               "create", <<>>)
    /\ UNCHANGED <<pureVars, testerVars, walk, manager, store, budgetTracker>>

\* createEndpoint up to its await; the server creates the endpoint
createEndpoint ==
    /\ endpointsManager.mounted
    /\ ~InFlight("create")
    /\ <<endpointsManager.props.userId, endpointsManager.props.projectId>>
          \notin endpointsManager.created
    /\ endpointsManager' =
          IF ~Truthy(endpointsManager.props.token)
          THEN Step(endpointsManager, "create", <<>>)
          ELSE Step([endpointsManager EXCEPT
                       !.requests = @ \cup {Request("create",
                                                    endpointsManager.props,
                                                    <<>>)},
                       !.created = @ \cup {<<endpointsManager.props.userId,
                                             endpointsManager.props.projectId>>}],
                    "create", <<>>)
    /\ UNCHANGED <<pureVars, testerVars, walk, manager, store, budgetTracker>>

\* Mutant: the created endpoint is added whatever the response says
createEndpointResumeAlways(r, response) ==
    /\ endpointsManager.mounted
    /\ r \in endpointsManager.requests
    /\ r.op = "create"
    /\ response \in EndpointResponses(ServerEndpoint(r.userId, r.projectId, "y"))
    /\ LET settled == [request |-> r, response |-> response]
           m == Step([endpointsManager EXCEPT !.requests = @ \ {r}],
                     "none", <<settled>>)
           after == AddEndpointState(store, r.userId, r.projectId,
                                     ServerEndpoint(r.userId, r.projectId, "y"))
       IN  /\ endpointsManager' = Rendered(m, after)
           /\ store' = after
    /\ UNCHANGED <<pureVars, testerVars, walk, manager, budgetTracker>>

\* createEndpoint after its await
createEndpointResume(r, response) ==
    /\ endpointsManager.mounted
    /\ r \in endpointsManager.requests
    /\ r.op = "create"
    /\ response \in EndpointResponses(ServerEndpoint(r.userId, r.projectId, "y"))
    /\ LET settled == [request |-> r, response |-> response]
           m == Step([endpointsManager EXCEPT !.requests = @ \ {r}],
                     "none", <<settled>>)
           after == IF response.success /\ response.data # Undefined
                    THEN AddEndpointState(store, r.userId, r.projectId,
                                          response.data)
                    ELSE store
       IN  /\ endpointsManager' = Rendered(m, after)
           /\ store' = after
    /\ UNCHANGED <<pureVars, testerVars, walk, manager, budgetTracker>>

\* The manager's updateEndpoint up to its await
updateEndpointCall(endpointId) ==
    /\ endpointsManager.mounted
    /\ ~InFlight("update")
    /\ endpointsManager' =
          IF ~Truthy(endpointsManager.props.token)
          THEN Step(endpointsManager, "update", <<>>)
          ELSE Step([endpointsManager EXCEPT
                       !.requests = @ \cup {Request("update",
                                                    endpointsManager.props,
                                                    endpointId)}],
                    "update", <<>>)
    /\ UNCHANGED <<pureVars, testerVars, walk, manager, store, budgetTracker>>

\* The manager's updateEndpoint after its await
updateEndpointResume(r, response) ==
    /\ endpointsManager.mounted
    /\ r \in endpointsManager.requests
    /\ r.op = "update"
    /\ response \in EndpointResponses([uuid |-> r.endpointId])
    /\ LET settled == [request |-> r, response |-> response]
           m == Step([endpointsManager EXCEPT !.requests = @ \ {r}],
                     "none", <<settled>>)
           after == IF response.success /\ response.data # Undefined
                    THEN UpdateEndpointState(store, r.userId, r.projectId,
                                             r.endpointId, response.data)
                    ELSE store
       IN  /\ endpointsManager' = Rendered(m, after)
           /\ store' = after
    /\ UNCHANGED <<pureVars, testerVars, walk, manager, budgetTracker>>

\* deleteEndpoint up to its await
deleteEndpoint(endpointId) ==
    /\ endpointsManager.mounted
    /\ ~InFlight("delete")
    /\ endpointsManager' =
          IF ~Truthy(endpointsManager.props.token)
          THEN Step(endpointsManager, "delete", <<>>)
          ELSE Step([endpointsManager EXCEPT
                       !.requests = @ \cup {Request("delete",
                                                    endpointsManager.props,
                                                    endpointId)}],
                    "delete", <<>>)
    /\ UNCHANGED <<pureVars, testerVars, walk, manager, store, budgetTracker>>

\* deleteEndpoint after its await
deleteEndpointResume(r, response) ==
    /\ endpointsManager.mounted
    /\ r \in endpointsManager.requests
    /\ r.op = "delete"
    /\ response \in DeleteResponses
    /\ LET settled == [request |-> r, response |-> response]
           m == Step([endpointsManager EXCEPT !.requests = @ \ {r}],
                     "none", <<settled>>)
           after == IF response.success
                    THEN RemoveEndpointState(store, r.userId, r.projectId,
                                             r.endpointId)
                    ELSE store
       IN  /\ endpointsManager' = Rendered(m, after)
           /\ store' = after
    /\ UNCHANGED <<pureVars, testerVars, walk, manager, budgetTracker>>

\* Another component calls the store's clearAll, and the hook, which
\* subscribes to its entry, renders again
cacheCleared ==
    /\ endpointsManager.mounted
    /\ store.cache # <<>>
    /\ store' = StoreState(<<>>, <<>>)
    /\ endpointsManager' =
          Rendered(Step(endpointsManager, "none", <<>>), StoreState(<<>>, <<>>))
    /\ UNCHANGED <<pureVars, testerVars, walk, manager, budgetTracker>>

(***************************************************************************)
(* useBudgetTracker: the persisted budgets and checkBudgets.  Amounts are  *)
(* whole cents; the quotient percentUsed is kept exact, as a ratio, with   *)
(* the values a zero divisor gives in JS.                                  *)
(***************************************************************************)
NaN == [kind |-> "NaN"]

Infinity(sign) == [kind |-> "Infinity", sign |-> sign]

\* (currentSpendCents / budget.limitCents) * 100
PercentUsed(currentSpendCents, limitCents) ==
    IF limitCents # 0
    THEN [kind |-> "ratio", num |-> currentSpendCents * 100, den |-> limitCents]
    ELSE IF currentSpendCents = 0 THEN NaN
    ELSE Infinity(IF currentSpendCents > 0 THEN 1 ELSE -1)

\* percentUsed >= n
AtLeast(percentUsed, n) ==
    CASE percentUsed.kind = "NaN" -> FALSE
      [] percentUsed.kind = "Infinity" -> percentUsed.sign > 0
      [] OTHER -> IF percentUsed.den > 0
                  THEN percentUsed.num >= n * percentUsed.den
                  ELSE percentUsed.num <= n * percentUsed.den

RECURSIVE SumCosts(_)
\* .reduce((sum, ep) => sum + ep.total_estimated_cost_cents, 0)
SumCosts(byEndpoint) ==
    IF byEndpoint = <<>> THEN 0
    ELSE Head(byEndpoint).total_estimated_cost_cents + SumCosts(Tail(byEndpoint))

\* projectId?: string is <<>> when absent and <<the string>> otherwise;
\* the empty string is falsy too
CurrentSpendCents(budget, analytics) ==
    IF budget.projectId # <<>> /\ budget.projectId[1] # <<>>
    THEN LET OfProject(ep) == StartsWith(ep.endpoint_id, budget.projectId[1])
         IN  SumCosts(SelectSeq(analytics.by_endpoint, OfProject))
    ELSE analytics.aggregate.total_estimated_cost_cents

\* The if / else if chain: the severity, or none
Severity(percentUsed) ==
    IF AtLeast(percentUsed, 100) THEN <<"exceeded">>
    ELSE IF AtLeast(percentUsed, 90) THEN <<"critical">>
    ELSE IF AtLeast(percentUsed, 75) THEN <<"warning">>
    ELSE <<>>

\* What one turn of the loop pushes
AlertsOfBudget(budget, analytics) ==
    LET currentSpendCents == CurrentSpendCents(budget, analytics)
        percentUsed == PercentUsed(currentSpendCents, budget.limitCents)
    IN  IF Severity(percentUsed) = <<>> THEN <<>>
        ELSE <<[budgetId |-> budget.id, budgetName |-> budget.name,
                currentSpendCents |-> currentSpendCents,
                limitCents |-> budget.limitCents,
                percentUsed |-> percentUsed,
                severity |-> Severity(percentUsed)[1]]>>

RECURSIVE NewAlerts(_, _)
\* for (const budget of store.budgets) { ... }
NewAlerts(budgets, analytics) ==
    IF budgets = <<>> THEN <<>>
    ELSE AlertsOfBudget(Head(budgets), analytics)
            \o NewAlerts(Tail(budgets), analytics)

BudgetNames == {"A", "B"}

\* What the caller hands to addBudget
BudgetInputs ==
    {[name |-> "A", limitCents |-> 100, projectId |-> <<>>],
     [name |-> "A", limitCents |-> 0, projectId |-> <<>>],
     [name |-> "B", limitCents |-> 100, projectId |-> <<<<"p">>>>],
     [name |-> "B", limitCents |-> 0, projectId |-> <<<<"p">>>>]}

UsageByEndpoint ==
    {<<>>,
     <<[endpoint_id |-> <<"p", "1">>, total_estimated_cost_cents |-> 80],
       [endpoint_id |-> <<"q", "1">>, total_estimated_cost_cents |-> 20]>>,
     <<[endpoint_id |-> <<"p", "1">>, total_estimated_cost_cents |-> 80],
       [endpoint_id |-> <<"p", "2">>, total_estimated_cost_cents |-> 15]>>}

Analytics ==
    [aggregate : [total_estimated_cost_cents : {0, 74, 75, 90, 100}],
     by_endpoint : UsageByEndpoint]

\* The ids are made of the time and a random suffix: each budget gets one
\* no other budget has
FreshBudgetId ==
    CHOOSE n \in 1..Cardinality(BudgetNames) :
       \A k \in 1..Len(budgetTracker.budgets) : budgetTracker.budgets[k].id # n

\* The lists of the model stay as short as the set of names is large
addBudget(budget) ==
    /\ Len(budgetTracker.budgets) < Cardinality(BudgetNames)
    /\ budgetTracker' =
          [budgetTracker EXCEPT
             !.budgets = Append(@, [id |-> FreshBudgetId, name |-> budget.name,
                                    limitCents |-> budget.limitCents,
                                    projectId |-> budget.projectId]),
             !.checked = <<>>]
    /\ UNCHANGED <<pureVars, testerVars, walk, manager, store, endpointsManager>>

removeBudget(id) ==
    /\ LET Kept(b) == b.id # id
       IN  budgetTracker' =
              [budgetTracker EXCEPT !.budgets = SelectSeq(@, Kept),
                                    !.checked = <<>>]
    /\ UNCHANGED <<pureVars, testerVars, walk, manager, store, endpointsManager>>

checkBudgets(analytics) ==
    /\ LET newAlerts == NewAlerts(budgetTracker.budgets, analytics)
       IN  budgetTracker' =
              [budgetTracker EXCEPT
                 !.alerts = newAlerts,
                 !.checked = <<[analytics |-> analytics, returned |-> newAlerts]>>]
    /\ UNCHANGED <<pureVars, testerVars, walk, manager, store, endpointsManager>>

clearAlerts ==
    /\ budgetTracker' = [budgetTracker EXCEPT !.alerts = <<>>, !.checked = <<>>]
    /\ UNCHANGED <<pureVars, testerVars, walk, manager, store, endpointsManager>>

(***************************************************************************)
(* Specifications.  SpecPure calls the two pure functions on every schema  *)
(* and value of the bounded sets.  Spec overlaps MaxCalls invocations of   *)
(* testEndpoint.  SpecRun follows one invocation through every endpoint,   *)
(* input, response and fault.                                              *)
(***************************************************************************)
NextPure == GenerateSampleInput \/ ValidateInput

SpecPure == InitPure /\ [][NextPure]_vars

NextWalk == WalkGenerate \/ WalkValidate \/ WalkCall \/ WalkReturn

\* A call that has started runs on: nothing else is scheduled in between
SpecWalk == InitPure /\ [][NextWalk]_vars /\ WF_vars(NextWalk)

Next ==
    \/ \E i \in Calls, p \in ProjectNames, c \in CoreCases :
          TestEndpointCall(i, p, c[1], c[2])
    \/ \E i \in Calls, s \in CoreSuffixes : TestEndpointTakeIds(i, s)
    \/ \E i \in Calls : TestEndpointValidate(i)
    \/ \E i \in Calls : TestEndpointExecute(i)
    \/ \E i \in Calls, o \in CoreOutcomes, d \in CoreDelays :
          TestEndpointResume(i, o, d)
    \/ \E i \in Calls : TestEndpointFinally(i)
    \/ clearResults

Spec == Init /\ [][Next]_vars

NextRun ==
    \/ \E p \in ProjectNames, e \in Endpoints, x \in SampleInputs :
          TestEndpointCall(1, p, e, x)
    \/ \E s \in RandomSuffixes : TestEndpointTakeIds(1, s)
    \/ TestEndpointValidate(1)
    \/ TestEndpointExecute(1)
    \/ \E o \in Outcomes, d \in Delays : TestEndpointResume(1, o, d)
    \/ TestEndpointFinally(1)
    \/ clearResults

SpecRun == Init /\ [][NextRun]_vars

NextManager ==
    \/ \E h \in ManagerHooks, e \in BOOLEAN : \E p \in HookProps(h) :
          ManagerMount(h, p, e)
    \/ \E p \in ManagerProps : ManagerRender(p)
    \/ ManagerDataArrives
    \/ ManagerDataCleared

SpecManager == Init /\ [][NextManager]_vars

NextStore ==
    \/ \E u \in UserIds, p \in ProjectIds : setEndpoints(u, p, <<EpOpen>>)
    \/ \E u \in UserIds, p \in ProjectIds : addEndpoint(u, p, EpTyped)
    \/ \E u \in UserIds, p \in ProjectIds :
          updateEndpoint(u, p, EpOpen.uuid, EpTyped)
    \/ \E u \in UserIds, p \in ProjectIds : removeEndpoint(u, p, EpTyped.uuid)
    \/ \E u \in UserIds, p \in ProjectIds : clearEndpoints(u, p)
    \/ \E u \in UserIds : clearUserEndpoints(u)
    \/ clearAll

SpecStore == Init /\ [][NextStore]_vars

\* The client calls in flight, and the endpoint the caller updates or
\* deletes: the first one of the user's project
Pending == IF endpointsManager.mounted THEN endpointsManager.requests ELSE {}

ShownEndpointIds ==
    IF endpointsManager.mounted
    THEN {ServerEndpoint(endpointsManager.props.userId,
                         endpointsManager.props.projectId, "x").uuid}
    ELSE {}

NextEndpoints ==
    \/ \E p \in EndpointsManagerProps : EndpointsManagerMount(p)
    \/ \E p \in EndpointsManagerProps : EndpointsManagerRender(p)
    \/ refresh
    \/ \E r \in Pending :
          \E x \in RefreshResponses(endpointsManager.created, r.userId,
                                    r.projectId) :
             clientRefreshSettles(r, x)
    \/ createEndpoint
    \/ \E r \in Pending :
          \E x \in EndpointResponses(ServerEndpoint(r.userId, r.projectId, "y")) :
             createEndpointResume(r, x)
    \/ \E id \in ShownEndpointIds : updateEndpointCall(id)
    \/ \E r \in Pending :
          \E x \in EndpointResponses([uuid |-> r.endpointId]) :
             updateEndpointResume(r, x)
    \/ \E id \in ShownEndpointIds : deleteEndpoint(id)
    \/ \E r \in Pending, x \in DeleteResponses : deleteEndpointResume(r, x)
    \/ cacheCleared

SpecEndpoints == Init /\ [][NextEndpoints]_vars

NextBudgets ==
    \/ \E b \in BudgetInputs : addBudget(b)
    \/ \E k \in 1..Len(budgetTracker.budgets) :
          removeBudget(budgetTracker.budgets[k].id)
    \/ \E a \in Analytics : checkBudgets(a)
    \/ clearAlerts

SpecBudgets == Init /\ [][NextBudgets]_vars

\* The hook used without a schema: the caller generates a sample, validates
\* its value or the sample, and tests an endpoint whose input_schema is null
InitOpen == InitPure /\ schemaIn = NoSchema

NextOpen ==
    \/ GenerateSampleInput
    \/ ValidateInput
    \/ \E p \in ProjectNames, x \in {valueIn} \cup Range(sample) :
          TestEndpointCall(1, p, EpOpen, x)
    \/ \E s \in CoreSuffixes : TestEndpointTakeIds(1, s)
    \/ TestEndpointValidate(1)
    \/ TestEndpointExecute(1)
    \/ \E o \in CoreOutcomes, d \in CoreDelays : TestEndpointResume(1, o, d)
    \/ TestEndpointFinally(1)

SpecOpen == InitOpen /\ [][NextOpen]_vars

(***************************************************************************)
(* Properties.                                                             *)
(***************************************************************************)
\* The invocation has recorded its result (or left the try statement)
Recorded(i) == pc[i] \in {"finally", "done"}

\* The one result an invocation created
ResultOf(i) == hist[i].created[1]

\* What execute settled with, for an invocation that got that far
OutcomeOf(i) == hist[i].outcome[1]

AllNull(r) ==
    /\ r.output = Null
    /\ r.tokensInput = Null
    /\ r.tokensOutput = Null

\* C1: for every schema S, validating the sample generated from S against
\* S itself gives an empty error list.
C1_SampleValidates ==
    \A k \in 1..Len(validation) :
        (schemaIn # NoSchema /\ sample # <<>>
         /\ sample[1] = generateSampleValue(schemaIn)
         /\ validation[k].input = sample[1])
            => validation[k].result.errors = <<>>

\* C2: testEndpoint always resolves with a TestResult and never rejects,
\* whatever validation finds and whatever execute answers or throws.
C2_AlwaysResolves ==
    \A i \in Calls :
        /\ Recorded(i) => frame[i][1].completion[1].kind = "return"
        /\ pc[i] = "done" =>
              /\ Len(hist[i].settled) = 1
              /\ hist[i].settled[1].kind = "resolved"
              /\ hist[i].settled[1].value \in Range(hist[i].created)

C2_Witness ==
    /\ pc[1] = "done"
    /\ hist[1].outcome # <<>>
    /\ OutcomeOf(1).kind = "response"
    /\ OutcomeOf(1).response = [success |-> TRUE, data |-> PayText]
    /\ hist[1].settled[1].kind = "resolved"

\* Whether the input of invocation i fails validation against the
\* endpoint's input schema
FailsValidation(i) ==
    /\ frame[i] # <<>>
    /\ frame[i][1].endpoint.input_schema # NoSchema
    /\ validateValue(frame[i][1].sampleInput,
                     frame[i][1].endpoint.input_schema, "root") # <<>>

\* C3: when the sample input fails validation, execute is never called and
\* the result has success false, null output, latency and token counts,
\* and the error "Input validation failed: " followed by the validator's
\* messages in the validator's order, joined by ", ".
C3_InvalidInputNotExecuted ==
    \A i \in Calls :
        FailsValidation(i) =>
            /\ hist[i].executeCalls = 0
            /\ pc[i] \notin {"calling", "awaiting"}
            /\ Recorded(i) =>
                  /\ Len(hist[i].created) = 1
                  /\ ResultOf(i).success = FALSE
                  /\ AllNull(ResultOf(i))
                  /\ ResultOf(i).latencyMs = Null
                  /\ ResultOf(i).error =
                        Str("Input validation failed: "
                            \o Join(validateValue(frame[i][1].sampleInput,
                                                  frame[i][1].endpoint.input_schema,
                                                  "root"), ", "))

C3_Witness ==
    /\ pc[1] = "done"
    /\ frame[1][1].sampleInput = InputBad
    /\ hist[1].executeCalls = 0
    /\ hist[1].settled[1].value.error =
          Str("Input validation failed: "
              \o "root.count: expected integer, got float, "
              \o "root.count: value -1.5 is less than minimum 0, "
              \o "root.name: string length 1 is less than minLength 2")

\* C4: on every path one TestResult is created for the invocation, that
\* result is prepended to the log exactly once, and it is the value the
\* invocation returns.
C4_Step(i) ==
    /\ ~Recorded(i)' => hist'[i].created = <<>> /\ hist'[i].prepended = <<>>
    /\ Recorded(i)' =>
          /\ Len(hist'[i].created) = 1
          /\ hist'[i].prepended = hist'[i].created
    /\ (~Recorded(i) /\ Recorded(i)') =>
          testResults' = <<hist'[i].created[1]>> \o testResults
    /\ (Recorded(i) /\ hist'[i] # hist[i]) => testResults' = testResults
    /\ pc'[i] = "done" =>
          hist'[i].settled = <<[kind |-> "resolved", value |-> hist'[i].created[1]]>>

C4_OneResultRecordedAndReturned == [][\A i \in Calls : C4_Step(i)]_vars

C4_Witness ==
    /\ pc[1] = "done"
    /\ hist[1].outcome # <<>>
    /\ OutcomeOf(1).kind = "throw"
    /\ testResults # <<>>
    /\ testResults[1] = hist[1].settled[1].value

\* C5: isLoading is set to true before the test identifier and the start
\* time are taken, and set to false after the result has been recorded, on
\* every path.
C5_Step(i) ==
    /\ (pc[i] = "idle" /\ pc'[i] # "idle") =>
          isLoading' /\ frame'[i][1].ids = <<>>
    /\ (frame[i] # <<>> /\ frame[i][1].ids = <<>> /\ frame'[i][1].ids # <<>>) =>
          isLoading /\ isLoading'
    /\ (pc[i] # "done" /\ pc'[i] = "done") =>
          /\ pc[i] = "finally"
          /\ Len(hist[i].prepended) = 1
          /\ hist[i].prepended[1] \in Range(testResults) \/ cleared
          /\ ~isLoading'

C5_LoadingBracketsTheRun == [][\A i \in Calls : C5_Step(i)]_vars

C5_Witness ==
    /\ pc[1] = "done"
    /\ pc[2] = "done"
    /\ ~isLoading
    /\ hist[1].outcome = <<>>
    /\ hist[2].outcome # <<>>
    /\ OutcomeOf(2).kind = "throw"

\* The results of the invocations that completed, latest completion first
RECURSIVE CompletionLog(_)
CompletionLog(order) ==
    IF order = <<>> THEN <<>>
    ELSE <<ResultOf(order[Len(order)])>>
         \o CompletionLog(SubSeq(order, 1, Len(order) - 1))

\* C6: overlapping invocations are not excluded and each adds its own
\* result: with no clearResults, once N invocations have completed the log
\* holds N results, one per invocation, latest completion first.
C6_LogInCompletionOrder ==
    ~cleared =>
        /\ testResults = CompletionLog(completed)
        /\ \A j, k \in 1..Len(completed) : j # k => completed[j] # completed[k]
        /\ (\A i \in Calls : pc[i] = "done") =>
              /\ Len(testResults) = MaxCalls
              /\ Range(completed) = Calls

C6_Witness ==
    /\ ~cleared
    /\ \A i \in Calls : pc[i] = "done"
    /\ started = <<1, 2>>
    /\ completed = <<2, 1>>
    /\ hist[1].executeCalls = 1
    /\ hist[2].executeCalls = 1
    /\ testResults[1] = ResultOf(1)
    /\ testResults[2] = ResultOf(2)
    /\ ResultOf(1) # ResultOf(2)

\* C7: when execute throws, the result has success false, null output, a
\* latency that is not null, null token counts, and as error the message
\* of the thrown Error, or the fallback "Test failed" when what was thrown
\* is not an Error and so carries no message.
C7_ThrownFaultResult ==
    \A i \in Calls :
        (Recorded(i) /\ hist[i].outcome # <<>> /\ OutcomeOf(i).kind = "throw") =>
            /\ Len(hist[i].created) = 1
            /\ ResultOf(i).success = FALSE
            /\ AllNull(ResultOf(i))
            /\ ResultOf(i).latencyMs.t = "number"
            /\ ResultOf(i).latencyMs =
                  Whole(ResultOf(i).timestamp - frame[i][1].ids[1].startTime)
            /\ ResultOf(i).error =
                  IF OutcomeOf(i).fault.isError
                  THEN Str(OutcomeOf(i).fault.message)
                  ELSE Str("Test failed")

C7_Witness ==
    /\ pc[1] = "done"
    /\ hist[1].outcome # <<>>
    /\ OutcomeOf(1) = [kind |-> "throw",
                       fault |-> [isError |-> TRUE, message |-> "Network error"]]
    /\ hist[1].settled[1].value.error = Str("Network error")
    /\ hist[1].settled[1].value.latencyMs = Whole(40)

\* Whether a payload carries a usage sub-object
HasUsage(data) ==
    /\ data.t = "object"
    /\ "usage" \in Range(OwnKeys(data))
    /\ GetProp(data, "usage").t = "object"

\* C8: when execute returns a success response, the result has success
\* true and the returned payload as output, for every payload; the token
\* counts come from the payload's usage sub-object when it carries one and
\* are null otherwise.
C8_SuccessResult ==
    \A i \in Calls :
        (Recorded(i) /\ hist[i].outcome # <<>> /\ OutcomeOf(i).kind = "response"
         /\ OutcomeOf(i).response.success) =>
            LET data == ResponseData(OutcomeOf(i).response)
            IN  /\ Len(hist[i].created) = 1
                /\ ResultOf(i).success = TRUE
                /\ ResultOf(i).output = data
                /\ HasUsage(data) =>
                      /\ ResultOf(i).tokensInput =
                            GetProp(GetProp(data, "usage"), "tokens_input")
                      /\ ResultOf(i).tokensOutput =
                            GetProp(GetProp(data, "usage"), "tokens_output")
                /\ ~HasUsage(data) =>
                      /\ ResultOf(i).tokensInput = Null
                      /\ ResultOf(i).tokensOutput = Null

\* C9: when execute returns a failure response, the result has success
\* false, null output even if the response carries data, and as error the
\* message the response reports (null when it reports none).
C9_FailureResponseResult ==
    \A i \in Calls :
        (Recorded(i) /\ hist[i].outcome # <<>> /\ OutcomeOf(i).kind = "response"
         /\ ~OutcomeOf(i).response.success) =>
            /\ Len(hist[i].created) = 1
            /\ ResultOf(i).success = FALSE
            /\ ResultOf(i).output = Null
            /\ ResultOf(i).error =
                  IF Has(OutcomeOf(i).response, "error")
                  THEN Str(OutcomeOf(i).response.error)
                  ELSE Null

C9_Witness ==
    /\ pc[1] = "done"
    /\ hist[1].outcome # <<>>
    /\ OutcomeOf(1).kind = "response"
    /\ OutcomeOf(1).response =
          [success |-> FALSE, error |-> "Bad output", data |-> PayUsage]
    /\ hist[1].settled[1].value.output = Null
    /\ hist[1].settled[1].value.error = Str("Bad output")

\* C10: every ValidationResult of validateInput has valid true exactly
\* when its error list is empty, the absent schema included.
C10_ValidIffNoErrors ==
    \A k \in 1..Len(validation) :
        validation[k].result.valid = (Len(validation[k].result.errors) = 0)

C10_Witness ==
    /\ validation # <<>>
    /\ schemaIn # NoSchema
    /\ ~validation[1].result.valid
    /\ Len(validation[1].result.errors) = 2

(***************************************************************************)
(* Properties of validateValue and generateSampleValue, read off the last  *)
(* validateInput and generateSampleInput calls on a present schema.        *)
(***************************************************************************)
Validated == validation # <<>> /\ schemaIn # NoSchema

VInput == validation[1].input

VErrors == validation[1].result.errors

Sampled == sample # <<>> /\ schemaIn # NoSchema

MissingMessage(name) == "root: missing required property \"" \o name \o "\""

RequiredNames == IF Has(schemaIn, "required") THEN schemaIn.required ELSE <<>>

Occurrences(msg, errors) == Cardinality({j \in 1..Len(errors) : errors[j] = msg})

\* The errors of the properties of the validated object that the schema
\* declares, in the order of the object's keys
DeclaredChildErrors ==
    Concat([k \in 1..Len(VInput.entries) |->
              LET key == VInput.entries[k][1]
              IN  IF \E d \in 1..Len(schemaIn.properties) :
                        schemaIn.properties[d][1] = key
                  THEN validateValue(VInput.entries[k][2],
                                     PropSchema(schemaIn, key),
                                     "root." \o key)
                  ELSE <<>>])

\* C11: for an object schema and a non-array object value, one 'missing
\* required property' error is emitted for every required name that is not
\* an own key of the value, with or without declared properties, and none
\* for a name that is an own key.
C11_RequiredScan ==
    (Validated /\ SchemaType(schemaIn) = "object" /\ VInput.t = "object") =>
        \A k \in 1..Len(RequiredNames) :
            Occurrences(MissingMessage(RequiredNames[k]), VErrors) =
                IF RequiredNames[k] \in Range(OwnKeys(VInput)) THEN 0 ELSE 1

\* C12: validateValue returns no error for a null or undefined value,
\* whatever the schema; a required property present with the value null
\* produces no error, only the names missing from the object do.
C12_NullIsValid ==
    Validated =>
        /\ VInput.t \in {"null", "undefined"} => VErrors = <<>>
        /\ (VInput.t = "object" /\ SchemaType(schemaIn) = "object"
            /\ \A k \in 1..Len(VInput.entries) : VInput.entries[k][2] = Null) =>
              \A j \in 1..Len(VErrors) :
                  VErrors[j] \in {MissingMessage(n) :
                                    n \in Range(RequiredNames) \ Range(OwnKeys(VInput))}

C12_Witness ==
    /\ Validated
    /\ schemaIn = [type |-> "object",
                   properties |-> <<<<"a", [type |-> "string", minLength |-> 2]>>>>,
                   required |-> <<"a">>]
    /\ VInput = Obj(<<<<"a", Null>>>>)
    /\ VErrors = <<>>

RECURSIVE IsSubsequence(_, _)
IsSubsequence(s, u) ==
    IF s = <<>> THEN TRUE
    ELSE IF u = <<>> THEN FALSE
    ELSE IF s[1] = u[1] THEN IsSubsequence(Tail(s), Tail(u))
    ELSE IsSubsequence(s, Tail(u))

\* C13: at an object node the missing-required errors come first, in the
\* declared order of required, then the errors of the properties, in the
\* order of the value's keys, and nothing else.
C13_ObjectErrorOrder ==
    (Validated /\ SchemaType(schemaIn) = "object" /\ VInput.t = "object") =>
        IF Has(schemaIn, "properties")
        THEN \E m \in 0..Len(VErrors) :
                /\ IsSubsequence(SubSeq(VErrors, 1, m),
                                 [k \in 1..Len(RequiredNames) |->
                                    MissingMessage(RequiredNames[k])])
                /\ SubSeq(VErrors, m + 1, Len(VErrors)) = DeclaredChildErrors
        ELSE VErrors = <<>>

C13_Witness ==
    /\ Validated
    /\ schemaIn = [type |-> "object",
                   properties |-> <<<<"a", [type |-> "integer", minimum |-> 0]>>>>,
                   required |-> <<"c", "b">>]
    /\ VInput = Obj(<<<<"a", Str("abc")>>>>)
    /\ VErrors = <<"root: missing required property \"c\"",
                   "root: missing required property \"b\"",
                   "root.a: expected number, got string">>

\* C14: for an array schema with items every element of an array value is
\* validated against items under the path "root[index]" and the element
\* errors follow each other in index order; a value that is not an array
\* gives exactly one type error; without items an array gives no error.
\* The values are those that pass the null/undefined short-circuit of C12,
\* which comes before every per-type rule.
C14_ArrayElements ==
    (Validated /\ SchemaType(schemaIn) = "array"
     /\ VInput.t \notin {"null", "undefined"}) =>
        IF VInput.t # "array"
        THEN VErrors = <<"root: expected array, got " \o TypeOf(VInput)>>
        ELSE IF Has(schemaIn, "items")
        THEN VErrors =
                Concat([k \in 1..Len(VInput.items) |->
                          validateValue(VInput.items[k], schemaIn.items,
                                        "root[" \o ToString(k - 1) \o "]")])
        ELSE VErrors = <<>>

C14_Witness ==
    /\ Validated
    /\ schemaIn = [type |-> "array", items |-> [type |-> "number", minimum |-> 0]]
    /\ VInput = Arr(<<Whole(1), Whole(-1), Str("x")>>)
    /\ VErrors = <<"root[1]: value -1 is less than minimum 0",
                   "root[2]: expected number, got string">>

Indicator(b) == IF b THEN 1 ELSE 0

\* C15: for a string schema and a string value each violated constraint
\* (minLength, maxLength, enum) gives one error of its own, so there are as
\* many errors as violated constraints; a value that is not a string gives
\* exactly one 'expected string' error.  The values are those that pass
\* the null/undefined short-circuit of C12.
C15_StringViolations ==
    (Validated /\ SchemaType(schemaIn) = "string"
     /\ VInput.t \notin {"null", "undefined"}) =>
        IF VInput.t # "string"
        THEN VErrors = <<"root: expected string, got " \o TypeOf(VInput)>>
        ELSE LET tooShort == Has(schemaIn, "minLength")
                             /\ Len(VInput.s) < schemaIn.minLength
                 tooLong == Has(schemaIn, "maxLength")
                            /\ Len(VInput.s) > schemaIn.maxLength
                 notListed == Has(schemaIn, "enum")
                              /\ \A k \in 1..Len(schemaIn.enum) :
                                    schemaIn.enum[k] # VInput.s
             IN  /\ Len(VErrors) =
                       Indicator(tooShort) + Indicator(tooLong) + Indicator(notListed)
                 /\ \A j, k \in 1..Len(VErrors) : j # k => VErrors[j] # VErrors[k]

C15_Witness ==
    /\ Validated
    /\ schemaIn = [type |-> "string", minLength |-> 3, maxLength |-> 1,
                   enum |-> <<"a", "b">>]
    /\ VInput = Str("zz")
    /\ VErrors = <<"root: string length 2 is less than minLength 3",
                   "root: string length 2 exceeds maxLength 1",
                   "root: value \"zz\" is not in enum [a, b]">>

\* C16: for type integer a number that is not whole gives "root: expected
\* integer, got float" and the minimum and maximum checks still apply, so
\* the integer error can come with a bound error; type number never gives
\* the integer error; a value within [minimum, maximum] gives no bound
\* error.
C16_NumberChecks ==
    (Validated /\ SchemaType(schemaIn) \in {"number", "integer"}
     /\ VInput.t = "number") =>
        LET floatError == "root: expected integer, got float"
            below == Has(schemaIn, "minimum") /\ VInput.h < schemaIn.minimum
            above == Has(schemaIn, "maximum") /\ VInput.h > schemaIn.maximum
        IN  /\ Occurrences(floatError, VErrors) =
                  Indicator(schemaIn.type = "integer" /\ VInput.h % 2 # 0)
            /\ Len(VErrors) = Occurrences(floatError, VErrors)
                              + Indicator(below) + Indicator(above)
            /\ below =>
                  "root: value " \o NumToString(VInput.h) \o " is less than minimum "
                  \o NumToString(schemaIn.minimum) \in Range(VErrors)
            /\ above =>
                  "root: value " \o NumToString(VInput.h) \o " exceeds maximum "
                  \o NumToString(schemaIn.maximum) \in Range(VErrors)

C16_Witness ==
    /\ Validated
    /\ schemaIn = [type |-> "integer", maximum |-> -2]
    /\ VInput = Num(11)
    /\ VErrors = <<"root: expected integer, got float",
                   "root: value 5.5 exceeds maximum -1">>

RecognizedTypes == {"string", "number", "integer", "boolean", "array", "object"}

\* C18: for a schema with no type, or a type that is not recognized,
\* validateValue returns no error for every value.
C18_UntypedAlwaysValid ==
    (Validated /\ (~Has(schemaIn, "type") \/ schemaIn.type \notin RecognizedTypes)) =>
        VErrors = <<>>

C18_Witness ==
    /\ Validated
    /\ schemaIn = [description |-> "anything"]
    /\ VInput = Whole(5)
    /\ VErrors = <<>>

\* C19: for an object schema with properties P the sample is a mapping
\* whose keys are exactly the keys of P, whatever required says, each with
\* the sample of its own schema; without properties it is the empty mapping.
C19_SampleObjectKeys ==
    (Sampled /\ SchemaType(schemaIn) = "object") =>
        /\ sample[1].t = "object"
        /\ IF Has(schemaIn, "properties")
           THEN /\ Len(sample[1].entries) = Len(schemaIn.properties)
                /\ \A k \in 1..Len(schemaIn.properties) :
                      /\ sample[1].entries[k][1] = schemaIn.properties[k][1]
                      /\ sample[1].entries[k][2] =
                            generateSampleValue(schemaIn.properties[k][2])
           ELSE sample[1].entries = <<>>

C19_Witness ==
    /\ Sampled
    /\ schemaIn = [type |-> "object",
                   properties |-> <<<<"a", [type |-> "string"]>>,
                                    <<"b", [type |-> "integer", minimum |-> 0]>>>>,
                   required |-> <<"a">>]
    /\ sample[1] = Obj(<<<<"a", Str("sample string")>>, <<"b", Whole(0)>>>>)

\* C20: for a string schema the sample is the first element of enum when
\* enum is a non-empty list, else default when it is defined (the empty
\* string included), else "sample string"; an empty enum does not take the
\* enum branch.
C20_StringSamplePrecedence ==
    (Sampled /\ SchemaType(schemaIn) = "string") =>
        sample[1] =
            IF Has(schemaIn, "enum") /\ Len(schemaIn.enum) > 0
            THEN Str(schemaIn.enum[1])
            ELSE IF Has(schemaIn, "default") THEN schemaIn.default
            ELSE Str("sample string")

\* C21: for a number or integer schema the sample is default when it is
\* defined (0 included), else minimum when it is defined, else 0, the same
\* for both types and returned as it is (a fractional minimum stays
\* fractional for type integer); for a boolean schema it is default when it
\* is defined (false included), else true.
C21_NumberAndBooleanSample ==
    Sampled =>
        /\ SchemaType(schemaIn) \in {"number", "integer"} =>
              sample[1] = IF Has(schemaIn, "default") THEN schemaIn.default
                          ELSE IF Has(schemaIn, "minimum")
                          THEN [t |-> "number", h |-> schemaIn.minimum]
                          ELSE [t |-> "number", h |-> 0]
        /\ SchemaType(schemaIn) = "boolean" =>
              sample[1] = IF Has(schemaIn, "default") THEN schemaIn.default
                          ELSE [t |-> "boolean", b |-> TRUE]

C21_Witness ==
    /\ Sampled
    /\ schemaIn = [type |-> "integer", default |-> Whole(0), minimum |-> 3]
    /\ sample = <<Whole(0)>>

\* C22: for an array schema the sample is a sequence of exactly one
\* element, the sample of items, when items is present, and the empty
\* sequence otherwise; never more than one element, whatever minItems says.
C22_ArraySample ==
    (Sampled /\ SchemaType(schemaIn) = "array") =>
        /\ sample[1].t = "array"
        /\ Len(sample[1].items) <= 1
        /\ sample[1].items = IF Has(schemaIn, "items")
                             THEN <<generateSampleValue(schemaIn.items)>>
                             ELSE <<>>

C22_Witness ==
    /\ Sampled
    /\ schemaIn = [type |-> "array", items |-> [type |-> "string"], minItems |-> 2]
    /\ sample = <<Arr(<<Str("sample string")>>)>>

\* C23: for a schema whose type is absent or not one of string, number,
\* integer, boolean, array, object, the sample is null.
C23_UnrecognizedSampleIsNull ==
    (Sampled /\ (~Has(schemaIn, "type") \/ schemaIn.type \notin RecognizedTypes)) =>
        sample = <<Null>>

C23_Witness ==
    /\ Sampled
    /\ schemaIn = [default |-> Str("abc")]
    /\ sample = <<Null>>

\* The schema nodes directly under a schema node
SchemaChildren(schema) ==
    (IF Has(schema, "items") THEN {schema.items} ELSE {})
    \cup (IF Has(schema, "properties")
          THEN {schema.properties[k][2] : k \in 1..Len(schema.properties)}
          ELSE {})

RECURSIVE SchemaDepth(_)
SchemaDepth(schema) ==
    LET below == {SchemaDepth(c) : c \in SchemaChildren(schema)}
    IN  1 + (IF below = {} THEN 0 ELSE CHOOSE d \in below : \A e \in below : e <= d)

\* C24: generateSampleValue and validateValue terminate on every schema
\* tree and value; the recursion is never deeper than the schema, and every
\* recursive call is made on a strict child of the schema node of its
\* caller.
C24_RecursionFollowsTheSchema ==
    /\ [](/\ walk.stack # <<>> =>
                Len(walk.stack) <= SchemaDepth(walk.stack[1].schema)
          /\ \A k \in 2..Len(walk.stack) :
                walk.stack[k].schema \in SchemaChildren(walk.stack[k - 1].schema))
    /\ (walk.phase = "running" ~> walk.phase = "returned")

\* C26: with an absent schema generateSampleInput returns the empty
\* mapping and validateInput answers valid with no errors for every input;
\* so testEndpoint on an endpoint whose input_schema is null goes on to
\* call execute, whatever the input.
C26_AbsentSchema ==
    /\ (schemaIn = NoSchema /\ sample # <<>>) =>
          sample = <<[t |-> "object", entries |-> <<>>]>>
    /\ (schemaIn = NoSchema /\ validation # <<>>) =>
          validation[1].result = [valid |-> TRUE, errors |-> <<>>]
    /\ \A i \in Calls :
          (frame[i] # <<>> /\ frame[i][1].endpoint.input_schema = NoSchema) =>
              /\ pc[i] \in {"awaiting", "finally", "done"} =>
                    hist[i].executeCalls = 1
              /\ Recorded(i) => hist[i].outcome # <<>>

C26_Witness ==
    /\ schemaIn = NoSchema
    /\ sample = <<Obj(<<>>)>>
    /\ validation # <<>>
    /\ validation[1].input = Arr(<<Whole(1), Whole(-1), Str("x")>>)
    /\ validation[1].result.valid
    /\ pc[1] = "done"
    /\ frame[1][1].sampleInput = Arr(<<Whole(1), Whole(-1), Str("x")>>)
    /\ hist[1].executeCalls = 1

\* C27: clearResults empties the result log, sets the error to null and
\* leaves isLoading as it is.  (clearResults is the one step that belongs to
\* no invocation: pc stays, and cleared is set.)
C27_ClearResultsEffect ==
    [][(pc' = pc /\ cleared') =>
          (testResults' = <<>> /\ error' = Null /\ isLoading' = isLoading)]_vars

C27_Witness ==
    /\ cleared
    /\ completed # <<>>
    /\ testResults = <<>>
    /\ error = Null
    /\ isLoading
    /\ \E i \in Calls : pc[i] = "awaiting"

\* C28: no retries: an invocation of testEndpoint calls execute at most
\* once, and exactly once when the input passes validation, whatever
\* execute returns or throws.
C28_NoRetries ==
    \A i \in Calls :
        /\ hist[i].executeCalls <= 1
        /\ Recorded(i) =>
              hist[i].executeCalls = IF FailsValidation(i) THEN 0 ELSE 1

C28_Witness ==
    /\ pc[1] = "done"
    /\ ~FailsValidation(1)
    /\ hist[1].executeCalls = 1
    /\ hist[1].outcome = <<[kind |-> "throw",
                            fault |-> [isError |-> TRUE,
                                       message |-> "Network error"]]>>

\* C29: the auto-fetch effect of a manager hook calls refresh at most once
\* per token value: while the token is unchanged and the exposed data stays
\* empty, no re-run of the effect (after a change of params, userId or
\* projectId) calls refresh a second time.
C29_AutoFetchOncePerToken ==
    manager.mounted => manager.refreshes <= 1

\* What the store answers for (userId, projectId) after the step
EntryAfter(userId, projectId) ==
    IF makeCacheKey(userId, projectId) \in DOMAIN store'.cache
    THEN store'.cache[makeCacheKey(userId, projectId)]
    ELSE Undefined

\* C30: clearUserEndpoints(userId) removes every cache entry of that user
\* and leaves the entries of every other user as they are, for all user and
\* project identifiers, those holding a ':' included (so the entry of one
\* (userId, projectId) pair is never the entry of another user's pair).
C30_ClearUserEndpointsFrame ==
    [][\A u \in UserIds :
          store'.clearedUser = <<u>> =>
              \A v \in UserIds, p \in ProjectIds :
                  EntryAfter(v, p) = IF v = u THEN Undefined
                                     ELSE getCacheEntry(v, p)]_vars

\* C31: while an invocation of testEndpoint has started and has not yet
\* recorded its result, isLoading is true; with overlapping invocations the
\* flag stays true until the last of them has finished.
C31_LoadingWhileInFlight ==
    (\E i \in Calls : pc[i] \in {"entered", "validating", "calling", "awaiting"})
        => isLoading

\* C32: clearResults does not cancel an invocation that waits for execute:
\* it still prepends its result when execute settles.  So the log holds
\* exactly the results recorded since the last clearResults, most recent
\* first, and it can be non-empty after clearResults with no testEndpoint
\* started since.
C32_LogSinceLastClear ==
    /\ testResults = [k \in 1..Len(sinceClear.recorded) |->
                        hist[sinceClear.recorded[k]].created[1]]
    /\ \A i \in sinceClear.suspended :
          /\ pc[i] \in {"awaiting", "finally", "done"}
          /\ Recorded(i) =>
                /\ Len(hist[i].prepended) = 1
                /\ \E k \in 1..Len(testResults) :
                      /\ testResults[k] = hist[i].prepended[1]
                      /\ sinceClear.recorded[k] = i

C32_Witness ==
    /\ cleared
    /\ started = <<1>>
    /\ sinceClear.suspended = {1}
    /\ pc[1] = "done"
    /\ testResults = <<hist[1].settled[1].value>>

\* C33: the error flag is null from the start of an invocation, and it is
\* set to a message only when execute throws: a validation failure and a
\* failure response leave it null.  With no other invocation overlapping
\* and no clearResults since, the flag is non-null after a call exactly
\* when execute threw.
C33_ErrorFlagFollowsThrownFault ==
    /\ pc[1] \in {"entered", "validating", "calling", "awaiting"} => error = Null
    /\ (Recorded(1) /\ sinceClear.recorded = <<1>>) =>
          (error # Null <=> (hist[1].outcome # <<>> /\ OutcomeOf(1).kind = "throw"))

\* The cache entry of a user's project, and the endpoints the server holds
\* or creates for it
Entry(userId, projectId) ==
    IF makeCacheKey(userId, projectId) \in DOMAIN store.cache
    THEN store.cache[makeCacheKey(userId, projectId)].endpoints
    ELSE <<>>

EndpointsOf(userId, projectId) ==
    {ServerEndpoint(userId, projectId, name) : name \in {"x", "y"}}

\* The client call that settled in the last step
Settled == endpointsManager.settled[1]

\* C34: the cache entry under (userId, projectId) only holds endpoints that
\* were fetched or created for that userId and projectId.
C34_EntryHoldsItsOwnEndpoints ==
    \A u \in ManagedUserIds, p \in ManagedProjectIds :
       \A k \in 1..Len(Entry(u, p)) : Entry(u, p)[k] \in EndpointsOf(u, p)

\* C35: no cache entry holds two endpoints with the same uuid, so after a
\* createEndpoint that succeeded the entry holds the created endpoint once,
\* however addEndpoint and the sync effect interleave.
C35_CreatedEndpointOnce ==
    \A u \in ManagedUserIds, p \in ManagedProjectIds :
       \A j, k \in 1..Len(Entry(u, p)) :
          Entry(u, p)[j].uuid = Entry(u, p)[k].uuid => j = k

\* C36: the hook exposes the client's list when it is non-empty and the
\* cached list otherwise, and isCached is true exactly when the client's
\* list is empty and the cached one is not; a refresh that leaves the
\* client's list empty does not overwrite the cache entry, and the hook
\* goes on exposing the cached endpoints, with isCached true.
C36_ExposedList ==
    /\ [](endpointsManager.mounted =>
            LET client == endpointsManager.clientEndpoints
                cached == Entry(endpointsManager.props.userId,
                                endpointsManager.props.projectId)
            IN  /\ endpointsManager.endpoints =
                      IF client # <<>> THEN client ELSE cached
                /\ endpointsManager.isCached <=> (client = <<>> /\ cached # <<>>))
    /\ [][(/\ endpointsManager.mounted
           /\ endpointsManager'.mounted
           /\ endpointsManager'.settled # <<>>
           /\ endpointsManager'.settled[1].request.op = "refresh"
           /\ endpointsManager'.settled[1].response.success
           /\ endpointsManager'.settled[1].response.data = <<>>
           /\ Entry(endpointsManager.props.userId,
                    endpointsManager.props.projectId) # <<>>)
          => /\ store' = store
             /\ endpointsManager'.endpoints =
                   Entry(endpointsManager.props.userId,
                         endpointsManager.props.projectId)
             /\ endpointsManager'.isCached]_vars

C36_Witness ==
    /\ endpointsManager.mounted
    /\ endpointsManager.settled # <<>>
    /\ Settled.request.op = "refresh"
    /\ Settled.response.success
    /\ Settled.response.data = <<>>
    /\ endpointsManager.isCached
    /\ Len(endpointsManager.endpoints) = 2

\* C37: without a token, refresh, createEndpoint, updateEndpoint and
\* deleteEndpoint return without a call of the client and without a change
\* of the store.
C37_NoTokenNoCall ==
    [][(/\ endpointsManager.mounted
        /\ endpointsManager'.mounted
        /\ endpointsManager'.called # "none"
        /\ ~Truthy(endpointsManager.props.token))
       => /\ endpointsManager'.requests = endpointsManager.requests
          /\ endpointsManager'.created = endpointsManager.created
          /\ store' = store]_vars

C37_Witness ==
    /\ endpointsManager.mounted
    /\ endpointsManager.called = "create"
    /\ ~Truthy(endpointsManager.props.token)
    /\ store.cache # <<>>

\* C38: createEndpoint, updateEndpoint and deleteEndpoint change the store
\* only when the response reports success and, for the first two, carries
\* data; an update or a removal for a key without a cache entry leaves the
\* whole store as it is.
C38_StoreChangesOnSuccessOnly ==
    [][(/\ endpointsManager.mounted
        /\ endpointsManager'.mounted
        /\ endpointsManager'.settled # <<>>
        /\ endpointsManager'.settled[1].request.op \in Mutations)
       => LET s == endpointsManager'.settled[1]
          IN  /\ store' # store =>
                    /\ s.response.success
                    /\ s.request.op \in {"create", "update"} =>
                          s.response.data # Undefined
              /\ (/\ s.request.op \in {"update", "delete"}
                  /\ makeCacheKey(s.request.userId, s.request.projectId)
                        \notin DOMAIN store.cache)
                 => store' = store]_vars

C38_Witness ==
    /\ endpointsManager.mounted
    /\ endpointsManager.settled # <<>>
    /\ Settled.request.op = "update"
    /\ Settled.response.success
    /\ Settled.response.data # Undefined
    /\ makeCacheKey(Settled.request.userId, Settled.request.projectId)
          \notin DOMAIN store.cache
    /\ store.cache # <<>>

\* What C39 says of one budget: the severity its spend calls for
ClaimedSeverity(spend, limitCents) ==
    IF 100 * spend >= 100 * limitCents THEN <<"exceeded">>
    ELSE IF 100 * spend >= 90 * limitCents THEN <<"critical">>
    ELSE IF 100 * spend >= 75 * limitCents THEN <<"warning">>
    ELSE <<>>

RECURSIVE ClaimedAlerts(_, _)
ClaimedAlerts(budgets, analytics) ==
    IF budgets = <<>> THEN <<>>
    ELSE LET b == Head(budgets)
             s == ClaimedSeverity(CurrentSpendCents(b, analytics), b.limitCents)
         IN  (IF s = <<>> THEN <<>>
              ELSE <<[budgetId |-> b.id, severity |-> s[1]]>>)
                \o ClaimedAlerts(Tail(budgets), analytics)

\* C39: checkBudgets returns at most one alert for each budget, in the
\* order of the budgets: 'exceeded' when the spend is at least 100% of
\* limitCents, 'critical' from 90%, 'warning' from 75%, none below; and the
\* alerts state is the list it returned.
C39_AlertSeverities ==
    budgetTracker.checked # <<>> =>
       LET returned == budgetTracker.checked[1].returned
       IN  /\ [k \in 1..Len(returned) |->
                 [budgetId |-> returned[k].budgetId,
                  severity |-> returned[k].severity]]
              = ClaimedAlerts(budgetTracker.budgets,
                              budgetTracker.checked[1].analytics)
           /\ budgetTracker.alerts = returned

====
